---- MODULE Spec2Model ----
(***************************************************************************)
(* Verification model of zippiehq/vcr.                                     *)
(*                                                                         *)
(* Part 1: the runner's CMIO <-> vsock multiplexer                         *)
(*         (src/packages/runner/src/utils.rs, run_machine_loop and         *)
(*         RunnerState).  One iteration of the loop is the chain           *)
(*            run -> receive -> respond -> drain -> walk_connections       *)
(*                -> walk_requests -> run                                  *)
(*         Every `?` on a machine call leaves the loop (pc = "error").     *)
(*                                                                         *)
(* HashMap<u32, V> is modelled as a set of [key, value] entries so that    *)
(* "one entry per key" is a property of insert, not of the notation.       *)
(* Option<T> is modelled as a sequence of length 0 (None) or 1 (Some).     *)
(***************************************************************************)
EXTENDS Integers, Sequences, FiniteSets, TLC

\* ------------------------------------------------------------------------
\* Program constants
\* ------------------------------------------------------------------------
GUEST_CID == 1
HOST_CID == 3
HOST_PORT == 1025
VSOCK_TYPE_STREAM == 1
VSOCK_OP_REQUEST == 1
VSOCK_OP_RESPONSE == 2
VSOCK_OP_RST == 3
VSOCK_OP_SHUTDOWN == 4
VSOCK_OP_RW == 5
VSOCK_OP_CREDIT_UPDATE == 6
\* the port run_machine_loop always seeds a connection request for
LOOP_REQUEST_PORT == 8080

\* ------------------------------------------------------------------------
\* Bounds of the model
\* ------------------------------------------------------------------------
\* the guest emits REQUEST / RESPONSE only while cmio_write_queue is shorter
MaxWriteQueue == 1
\* the guest emits RW only while fewer payloads are buffered in read queues
MaxBuffered == 2

\* vsock ports used by the guest and by listen()/connect()
Ports == {8080, 9000}
\* payloads of the guest's RW packets (byte strings)
Payloads == {<<1>>, <<2>>}

VARIABLES
    pc,                  \* position of run_machine_loop
    listeners,           \* RunnerState.listeners
    connections,         \* RunnerState.connections
    connection_requests, \* RunnerState.connection_requests
    cmio_write_queue,    \* RunnerState.cmio_write_queue
    cmio_read_queue,     \* RunnerState.cmio_read_queue
    cmio_request,        \* the machine: the CMIO request of the last yield
    packet,              \* run_machine_loop's local `packet` (Option<Packet>)
    \* history variables (observations of the run, never read by the code)
    yielded,             \* run_machine_until_yield has returned at least once
    n_receive,           \* receive_packet calls since the last yield
    n_response,          \* send_cmio_response calls since the last yield
    response,            \* what the last send_cmio_response carried
    dispatched,          \* the last packet dispatched with the state around it
    guest_rw,            \* per port: RW payloads transmitted to its connection
    requests_enqueued    \* per port: REQUEST packets enqueued for its request

None == <<>>
Some(x) == <<x>>

\* Part 2: the vsock packet codec, driven by a harness
VARIABLES
    codec_pc,            \* position of the harness
    codec_packet,        \* the Packet built by Packet::new
    codec_bytes,         \* the byte string handed to the decoders
    codec_from_bytes,    \* what Packet::from_bytes returned
    codec_from_read      \* what Packet::from_read returned

\* Part 3: the CMIO yield word, driven by a harness
VARIABLES
    yield_pc,            \* position of the harness
    yield_data,          \* the CmioYield given to pack
    yield_packed,        \* the u64 pack returned
    yield_unpacked       \* the CmioYield unpack returned

\* Part 4: the NBD server
VARIABLES
    nbd_acceptor,        \* position of Server::run
    nbd_export,          \* InMemoryExport.data behind the Arc<Mutex<..>>
    nbd_mutex,           \* the task holding the export mutex (0: unlocked)
    nbd_tasks,           \* per connection: the handle_client task
    nbd_streams,         \* per connection: the TCP stream seen by the server
    nbd_in_export,       \* history: the tasks inside Export::read / write
    nbd_shadow,          \* history: the bytes of the successful WRITEs
    nbd_last,            \* history: the work a task has just finished
    nbd_sent             \* the requests the clients have sent

\* Part 5: the HTTP health-check client, driven by its Client callbacks
VARIABLES
    hc_client,           \* the HttpHealthCheckClient
    hc_last              \* history: the last callback and what it returned

runner_vars == <<pc, listeners, connections, connection_requests, cmio_write_queue,
          cmio_read_queue, cmio_request, packet, yielded, n_receive,
          n_response, response, dispatched, guest_rw, requests_enqueued>>

codec_vars == <<codec_pc, codec_packet, codec_bytes, codec_from_bytes, codec_from_read>>

yield_vars == <<yield_pc, yield_data, yield_packed, yield_unpacked>>

nbd_vars == <<nbd_acceptor, nbd_export, nbd_mutex, nbd_tasks, nbd_streams,
              nbd_in_export, nbd_shadow, nbd_last, nbd_sent>>

hc_vars == <<hc_client, hc_last>>

VARIABLES
    hs_server,           \* the HttpServer
    hs_last,             \* history: the last callback and what it returned
    hs_history           \* history: per peer port, the bytes on_data was given
                         \* and the responses get_write_data returned since
                         \* on_connection

hs_vars == <<hs_server, hs_last, hs_history>>

VARIABLES
    drv_pc,              \* position of the code using the CMIO driver
    drv_self,            \* the CmioIoDriver (device or mock build)
    drv_os,              \* the kernel side: descriptors, mappings, errno
    drv_last             \* history: the last call and what it returned

drv_vars == <<drv_pc, drv_self, drv_os, drv_last>>

VARIABLES
    ga_pc,               \* position of the guest agent's run_agent loop
    ga_connections,      \* ConnectionManager.connections
    ga_streams,          \* the local vsock streams the agent has opened
    ga_last              \* history: the last handler, the packet it decoded
                         \* and the packets it handed to send_cmio

ga_vars == <<ga_pc, ga_connections, ga_streams, ga_last>>

\* the guest agent running inside the runner's machine
VARIABLES
    comp_agent,          \* the agent between yields: the send_cmio it waits
                         \* in, the packets still to hand to send_cmio, the
                         \* RX mapping
    comp_last            \* history: the last send_cmio that returned, the
                         \* response it was given and what was dispatched

comp_vars == <<comp_agent, comp_last>>

\* the variables of the parts that follow the health-check client
ext_vars == <<hs_vars, drv_vars, ga_vars, comp_vars>>

vars == <<runner_vars, codec_vars, yield_vars, nbd_vars, hc_vars, ext_vars>>

\* the variables of the parts other than the runner
non_runner_vars == <<codec_vars, yield_vars, nbd_vars, hc_vars, ext_vars>>

\* the parts other than the one a specification runs stay as constructed
codec_idle ==
    /\ codec_pc = "idle"
    /\ codec_packet = None
    /\ codec_bytes = <<>>
    /\ codec_from_bytes = None
    /\ codec_from_read = None

yield_idle ==
    /\ yield_pc = "idle"
    /\ yield_data = None
    /\ yield_packed = None
    /\ yield_unpacked = None

nbd_idle ==
    /\ nbd_acceptor = "idle"
    /\ nbd_export = <<>>
    /\ nbd_mutex = 0
    /\ nbd_tasks = <<>>
    /\ nbd_streams = <<>>
    /\ nbd_in_export = {}
    /\ nbd_shadow = <<>>
    /\ nbd_last = None
    /\ nbd_sent = 0

hc_idle ==
    /\ hc_client = None
    /\ hc_last = None

hs_idle ==
    /\ hs_server = None
    /\ hs_last = None
    /\ hs_history = None

drv_idle ==
    /\ drv_pc = "idle"
    /\ drv_self = None
    /\ drv_os = None
    /\ drv_last = None

ga_idle ==
    /\ ga_pc = "idle"
    /\ ga_connections = {}
    /\ ga_streams = None
    /\ ga_last = None

comp_idle ==
    /\ comp_agent = None
    /\ comp_last = None

ext_idle == hs_idle /\ drv_idle /\ ga_idle /\ comp_idle

\* what machine.send_cmio_response was given since the last yield
NoResponse == [kind |-> "none"]
EmptyResponse == [kind |-> "empty"]
PacketResponse(p) == [kind |-> "packet", bytes |-> p]

\* ------------------------------------------------------------------------
\* std::collections::HashMap and Vec
\* ------------------------------------------------------------------------
HashMapRemove(map, k) == {e \in map : e.key # k}

HashMapInsert(map, k, v) == HashMapRemove(map, k) \cup {[key |-> k, value |-> v]}

\* Option<&V>: the set of values stored under k
HashMapGet(map, k) == {e.value : e \in {x \in map : x.key = k}}

Keys(map) == {e.key : e \in map}

VecPush(v, x) == Append(v, x)

\* Vec::pop removes the LAST element
VecPopRest(v) == SubSeq(v, 1, Len(v) - 1)

VecPopped(v) == v[Len(v)]

\* all orders in which a HashMap iteration may visit the entries of S
IterationOrders(S) ==
    {f \in [1..Cardinality(S) -> S] : \A i, j \in 1..Cardinality(S) : f[i] = f[j] => i = j}

\* ------------------------------------------------------------------------
\* Packets
\* ------------------------------------------------------------------------
VirtioVsockHdr(src_cid, dst_cid, src_port, dst_port, len, op) ==
    [src_cid |-> src_cid, dst_cid |-> dst_cid, src_port |-> src_port,
     dst_port |-> dst_port, len |-> len, type_ |-> VSOCK_TYPE_STREAM,
     op |-> op, flags |-> 0, buf_alloc |-> 0, fwd_cnt |-> 0]

Packet_new(hdr, payload) == [hdr |-> hdr, payload |-> payload]

\* (mutant) the packet is addressed from the guest's port
construct_packet_from_guest_port(guest_port, op, payload) ==
    Packet_new(VirtioVsockHdr(HOST_CID, GUEST_CID, guest_port, guest_port,
                              Len(payload), op), payload)

construct_packet(guest_port, op, payload) ==
    Packet_new(VirtioVsockHdr(HOST_CID, GUEST_CID, HOST_PORT, guest_port,
                              Len(payload), op), payload)

\* the well-formed packets the guest may transmit in one yield
GuestOps == {VSOCK_OP_REQUEST, VSOCK_OP_RESPONSE, VSOCK_OP_RST,
             VSOCK_OP_SHUTDOWN, VSOCK_OP_RW, VSOCK_OP_CREDIT_UPDATE}

\* dst_port is read by the REQUEST and RESPONSE dispatch only
GuestPackets ==
    {Packet_new(VirtioVsockHdr(GUEST_CID, HOST_CID, s, d, 0, op), <<>>) :
        s \in Ports, d \in Ports, op \in {VSOCK_OP_REQUEST, VSOCK_OP_RESPONSE}}
    \cup
    {Packet_new(VirtioVsockHdr(GUEST_CID, HOST_CID, s, HOST_PORT, 0, op), <<>>) :
        s \in Ports, op \in {VSOCK_OP_RST, VSOCK_OP_SHUTDOWN, VSOCK_OP_CREDIT_UPDATE}}
    \cup
    {Packet_new(VirtioVsockHdr(GUEST_CID, HOST_CID, s, HOST_PORT, Len(p), VSOCK_OP_RW), p) :
        s \in Ports, p \in Payloads}

\* ---- the codec of src/packages/vsock-protocol/src/lib.rs (Part 2 drives
\* ---- it through a harness; receive_packet decodes with it)
\* mem::size_of::<VirtioVsockHdr>(): five u32, two u16, three u32
HDR_SIZE == 36
\* the largest payload Packet::from_read accepts
MAX_PAYLOAD_LEN == 4096

\* the short payload lengths the harness tries, next to 4096 and 4097
MaxShortPayload == 2

\* Result<T, io::Error>
Ok(v) == [ok |-> TRUE, value |-> Some(v), error |-> ""]
Err(e) == [ok |-> FALSE, value |-> None, error |-> e]

\* bytes[a..b]
Slice(bytes, a, b) == SubSeq(bytes, a + 1, b)

\* u32::to_le_bytes / u16::to_le_bytes (values below 2^31)
u32_to_le_bytes(x) ==
    <<x % 256, (x \div 256) % 256, (x \div 65536) % 256, (x \div 16777216) % 256>>

u16_to_le_bytes(x) == <<x % 256, (x \div 256) % 256>>

\* u32::from_le_bytes / u16::from_le_bytes
u32_from_le_bytes(b) == b[1] + 256 * b[2] + 65536 * b[3] + 16777216 * b[4]

u16_from_le_bytes(b) == b[1] + 256 * b[2]

\* (mutant) op is written before type_
VirtioVsockHdr_to_bytes_op_first(h) ==
    u32_to_le_bytes(h.src_cid) \o u32_to_le_bytes(h.dst_cid)
    \o u32_to_le_bytes(h.src_port) \o u32_to_le_bytes(h.dst_port)
    \o u32_to_le_bytes(h.len) \o u16_to_le_bytes(h.op)
    \o u16_to_le_bytes(h.type_) \o u32_to_le_bytes(h.flags)
    \o u32_to_le_bytes(h.buf_alloc) \o u32_to_le_bytes(h.fwd_cnt)

VirtioVsockHdr_to_bytes(h) ==
    u32_to_le_bytes(h.src_cid) \o u32_to_le_bytes(h.dst_cid)
    \o u32_to_le_bytes(h.src_port) \o u32_to_le_bytes(h.dst_port)
    \o u32_to_le_bytes(h.len) \o u16_to_le_bytes(h.type_)
    \o u16_to_le_bytes(h.op) \o u32_to_le_bytes(h.flags)
    \o u32_to_le_bytes(h.buf_alloc) \o u32_to_le_bytes(h.fwd_cnt)

\* Option<VirtioVsockHdr>
VirtioVsockHdr_from_bytes(bytes) ==
    IF Len(bytes) < HDR_SIZE THEN None
    ELSE Some([src_cid   |-> u32_from_le_bytes(Slice(bytes, 0, 4)),
               dst_cid   |-> u32_from_le_bytes(Slice(bytes, 4, 8)),
               src_port  |-> u32_from_le_bytes(Slice(bytes, 8, 12)),
               dst_port  |-> u32_from_le_bytes(Slice(bytes, 12, 16)),
               len       |-> u32_from_le_bytes(Slice(bytes, 16, 20)),
               type_     |-> u16_from_le_bytes(Slice(bytes, 20, 22)),
               op        |-> u16_from_le_bytes(Slice(bytes, 22, 24)),
               flags     |-> u32_from_le_bytes(Slice(bytes, 24, 28)),
               buf_alloc |-> u32_from_le_bytes(Slice(bytes, 28, 32)),
               fwd_cnt   |-> u32_from_le_bytes(Slice(bytes, 32, 36))])

Packet_to_bytes(p) == VirtioVsockHdr_to_bytes(p.hdr) \o p.payload

Packet_from_bytes(bytes) ==
    IF Len(bytes) < HDR_SIZE THEN Err("Packet smaller than header")
    ELSE LET hdr == VirtioVsockHdr_from_bytes(Slice(bytes, 0, HDR_SIZE))
         IN  IF hdr = None THEN Err("Invalid vsock header")
             ELSE LET payload_len == hdr[1].len
                      expected_total_len == HDR_SIZE + payload_len
                  IN  IF Len(bytes) < expected_total_len
                      THEN Err("Packet smaller than indicated by header length")
                      ELSE Ok(Packet_new(hdr[1],
                                         Slice(bytes, HDR_SIZE, expected_total_len)))

\* bytes no packet can be decoded from: less than a header, and a header
\* that declares more payload than follows
MalformedData ==
    {<<1, 2, 3>>,
     VirtioVsockHdr_to_bytes(VirtioVsockHdr(GUEST_CID, HOST_CID, 9000, HOST_PORT, 2,
                                            VSOCK_OP_RW)) \o <<1>>}

\* CmioRequest as receive_packet matches it: the variant (TxOutput for
\* Automatic(TxOutput), GIO for Manual(GIO), Other for every other one,
\* with or without data of its own) and its data
CmioRequests ==
    {[variant |-> "Other", data |-> d] :
        d \in {<<>>, Packet_to_bytes(Packet_new(VirtioVsockHdr(GUEST_CID, HOST_CID, 9000,
                                              8080, 0, VSOCK_OP_REQUEST), <<>>))}}
    \cup {[variant |-> v, data |-> d] :
            v \in {"TxOutput", "GIO"},
            d \in {<<>>} \cup MalformedData \cup {Packet_to_bytes(p) : p \in GuestPackets}}

NoRequest == [variant |-> "Other", data |-> <<>>]

\* ------------------------------------------------------------------------
\* RunnerListener, RunnerConnection, RunnerConnectionRequest
\* ------------------------------------------------------------------------
RunnerListener_new(port) == [port |-> port]

RunnerConnection_new(port) == [port |-> port, read_queue |-> <<>>, write_queue |-> <<>>]

RunnerConnectionRequest_new(port) == [port |-> port, open_requested |-> FALSE]

reset_received(connection) == [connection EXCEPT !.read_queue = <<>>, !.write_queue = <<>>]

shutdown_received(connection) == [connection EXCEPT !.read_queue = <<>>, !.write_queue = <<>>]

\* ------------------------------------------------------------------------
\* RunnerState (as a record st, so that dispatch can be iterated)
\* ------------------------------------------------------------------------
RunnerState_new ==
    [listeners |-> {}, connections |-> {}, connection_requests |-> {},
     cmio_write_queue |-> <<>>, cmio_read_queue |-> <<>>]

add_listener(st, port) ==
    [st EXCEPT !.listeners = HashMapInsert(@, port, RunnerListener_new(port))]

get_listener(st, port) == HashMapGet(st.listeners, port)

\* (mutant) an insert that keeps the entry already stored under the key
add_connection_keeps_old(st, port) ==
    [st EXCEPT !.connections = @ \cup {[key |-> port, value |-> RunnerConnection_new(port)]}]

add_connection(st, port) ==
    [st EXCEPT !.connections = HashMapInsert(@, port, RunnerConnection_new(port))]

get_connection(st, port) == HashMapGet(st.connections, port)

add_connection_request(st, port) ==
    [st EXCEPT !.connection_requests =
                  HashMapInsert(@, port, RunnerConnectionRequest_new(port))]

remove_connection_request(st, port) ==
    [st EXCEPT !.connection_requests = HashMapRemove(@, port)]

get_connection_request(st, port) == HashMapGet(st.connection_requests, port)

add_to_write_queue(st, pkt) ==
    [st EXCEPT !.cmio_write_queue = VecPush(@, pkt)]

add_to_read_queue(st, pkt) ==
    [st EXCEPT !.cmio_read_queue = VecPush(@, pkt)]

\* the current RunnerState
State ==
    [listeners |-> listeners, connections |-> connections,
     connection_requests |-> connection_requests,
     cmio_write_queue |-> cmio_write_queue, cmio_read_queue |-> cmio_read_queue]

SetState(st) ==
    /\ listeners' = st.listeners
    /\ connections' = st.connections
    /\ connection_requests' = st.connection_requests
    /\ cmio_write_queue' = st.cmio_write_queue
    /\ cmio_read_queue' = st.cmio_read_queue

\* ------------------------------------------------------------------------
\* run_machine_loop: dispatch of one packet popped from cmio_read_queue
\* ------------------------------------------------------------------------
DispatchRequest(st, p) ==
    LET dst_port == p.hdr.dst_port
        src_port == p.hdr.src_port
    IN  IF get_listener(st, dst_port) # {}
        THEN add_connection(
                 add_to_write_queue(st, construct_packet(dst_port, VSOCK_OP_RESPONSE, <<>>)),
                 src_port)
        ELSE add_to_write_queue(st, construct_packet(dst_port, VSOCK_OP_RST, <<>>))

\* the state between add_connection (line 299) and remove_connection_request
\* (line 300) of a matched RESPONSE; st itself for every other packet
DispatchResponseMid(st, p) ==
    LET found == get_connection_request(st, p.hdr.src_port)
    IN  IF p.hdr.op = VSOCK_OP_RESPONSE /\ found # {}
        THEN add_connection(st, (CHOOSE r \in found : TRUE).port)
        ELSE st

\* (mutant) the matched request is left in connection_requests
DispatchResponseKeepsRequest(st, p) ==
    LET dst_port == p.hdr.dst_port
    IN  IF get_connection_request(st, p.hdr.src_port) # {}
        THEN DispatchResponseMid(st, p)
        ELSE add_to_write_queue(st, construct_packet(dst_port, VSOCK_OP_RST, <<>>))

DispatchResponse(st, p) ==
    LET dst_port == p.hdr.dst_port
    IN  IF get_connection_request(st, p.hdr.src_port) # {}
        THEN remove_connection_request(DispatchResponseMid(st, p), p.hdr.src_port)
        ELSE add_to_write_queue(st, construct_packet(dst_port, VSOCK_OP_RST, <<>>))

\* get_connection returns &mut RunnerConnection: the entry is changed in place
DispatchRst(st, p) ==
    IF get_connection(st, p.hdr.src_port) # {}
    THEN [st EXCEPT !.connections =
            {IF e.key = p.hdr.src_port
             THEN [e EXCEPT !.value = reset_received(@)] ELSE e : e \in @}]
    ELSE st  \* RunnerConnectionRequest::reset_received only logs

\* (mutant) the payload is put in front of the buffered ones
DispatchRwPrepends(st, p) ==
    IF get_connection(st, p.hdr.src_port) # {}
    THEN [st EXCEPT !.connections =
            {IF e.key = p.hdr.src_port
             THEN [e EXCEPT !.value.read_queue = <<p.payload>> \o @] ELSE e : e \in @}]
    ELSE st

DispatchRw(st, p) ==
    IF get_connection(st, p.hdr.src_port) # {}
    THEN [st EXCEPT !.connections =
            {IF e.key = p.hdr.src_port
             THEN [e EXCEPT !.value.read_queue = VecPush(@, p.payload)] ELSE e : e \in @}]
    ELSE st

DispatchShutdown(st, p) ==
    IF get_connection(st, p.hdr.src_port) # {}
    THEN [st EXCEPT !.connections =
            {IF e.key = p.hdr.src_port
             THEN [e EXCEPT !.value = shutdown_received(@)] ELSE e : e \in @}]
    ELSE st

Dispatch(st, p) ==
    CASE p.hdr.op = VSOCK_OP_REQUEST  -> DispatchRequest(st, p)
      [] p.hdr.op = VSOCK_OP_RESPONSE -> DispatchResponse(st, p)
      [] p.hdr.op = VSOCK_OP_RST      -> DispatchRst(st, p)
      [] p.hdr.op = VSOCK_OP_RW       -> DispatchRw(st, p)
      [] p.hdr.op = VSOCK_OP_SHUTDOWN -> DispatchShutdown(st, p)
      [] OTHER                        -> st

\* while let Some(packet) = state.pop_from_read_queue() { .. }; `last` records
\* the packet dispatched last, the state before it and the state in its middle
RECURSIVE DrainReadQueue(_, _)
DrainReadQueue(st, last) ==
    IF st.cmio_read_queue = <<>>
    THEN [st |-> st, last |-> last]
    ELSE LET p   == VecPopped(st.cmio_read_queue)
             st1 == [st EXCEPT !.cmio_read_queue = VecPopRest(@)]
         IN  DrainReadQueue(Dispatch(st1, p),
                 Some([pkt |-> p, before |-> st1, mid |-> DispatchResponseMid(st1, p)]))

\* ------------------------------------------------------------------------
\* receive_packet
\* ------------------------------------------------------------------------
\* (mutant) the variant of the request is not looked at
receive_packet_any_variant(request) ==
    IF request.data # <<>> /\ Packet_from_bytes(request.data).ok
    THEN Packet_from_bytes(request.data).value
    ELSE None

\* Ok(Some(packet)) or Ok(None); the `?` on receive_cmio_request is the
\* action MachineFails
receive_packet(request) ==
    LET cmio_data == IF request.variant \in {"TxOutput", "GIO"}
                     THEN Some(request.data) ELSE None
    IN  IF cmio_data # None /\ cmio_data[1] # <<>> /\ Packet_from_bytes(cmio_data[1]).ok
        THEN Packet_from_bytes(cmio_data[1]).value
        ELSE None

\* ------------------------------------------------------------------------
\* History of the run
\* ------------------------------------------------------------------------
\* the connection for the source port of p is (re)established by dispatching p
Establishes(st, p) ==
    \/ p.hdr.op = VSOCK_OP_REQUEST /\ get_listener(st, p.hdr.dst_port) # {}
    \/ p.hdr.op = VSOCK_OP_RESPONSE /\ get_connection_request(st, p.hdr.src_port) # {}

\* guest_rw after the guest's packet p was handed to a runner in state st
RecordGuestRw(log, last) ==
    IF last = None THEN log
    ELSE LET p  == last[1].pkt
             st == last[1].before
             s  == p.hdr.src_port
         IN  IF p.hdr.op = VSOCK_OP_RW /\ get_connection(st, s) # {}
             THEN [log EXCEPT ![s] = Append(@, p.payload)]
             ELSE IF Establishes(st, p) \/ p.hdr.op \in {VSOCK_OP_RST, VSOCK_OP_SHUTDOWN}
             THEN [log EXCEPT ![s] = <<>>]
             ELSE log

\* requests_enqueued after cmio_write_queue grew from oldq to newq: every
\* REQUEST packet pushed is logged under its dst_port
RecordRequests(log, oldq, newq) ==
    LET pushed == SubSeq(newq, Len(oldq) + 1, Len(newq))
    IN  [p \in Ports |->
           log[p] \o SelectSeq(pushed,
                       LAMBDA x : x.hdr.op = VSOCK_OP_REQUEST /\ x.hdr.dst_port = p)]

\* ------------------------------------------------------------------------
\* Initial state and the entry points listen() and connect()
\* ------------------------------------------------------------------------
runner_idle ==
    /\ pc = "start"
    /\ listeners = RunnerState_new.listeners
    /\ connections = RunnerState_new.connections
    /\ connection_requests = RunnerState_new.connection_requests
    /\ cmio_write_queue = RunnerState_new.cmio_write_queue
    /\ cmio_read_queue = RunnerState_new.cmio_read_queue
    /\ cmio_request = NoRequest
    /\ packet = None
    /\ yielded = FALSE
    /\ n_receive = 0
    /\ n_response = 0
    /\ response = NoResponse
    /\ dispatched = None
    /\ guest_rw = [p \in Ports |-> <<>>]
    /\ requests_enqueued = [p \in Ports |-> <<>>]

Init == runner_idle /\ codec_idle /\ yield_idle /\ nbd_idle /\ hc_idle /\ ext_idle

UNCHANGED_history ==
    UNCHANGED <<yielded, n_receive, n_response, response, dispatched, guest_rw,
                requests_enqueued>>

\* listen(machine, port): add_listener(port), then run_machine_loop, whose
\* first statement is add_connection_request(8080)
listen ==
    /\ pc = "start"
    /\ \E port \in Ports :
         SetState(add_connection_request(add_listener(State, port), LOOP_REQUEST_PORT))
    /\ pc' = "run"
    /\ UNCHANGED <<cmio_request, packet>>
    /\ UNCHANGED_history
    /\ UNCHANGED non_runner_vars

\* connect(machine, port): add_connection_request(port), then run_machine_loop
connect ==
    /\ pc = "start"
    /\ \E port \in Ports :
         SetState(add_connection_request(add_connection_request(State, port),
                                         LOOP_REQUEST_PORT))
    /\ pc' = "run"
    /\ UNCHANGED <<cmio_request, packet>>
    /\ UNCHANGED_history
    /\ UNCHANGED non_runner_vars

\* ------------------------------------------------------------------------
\* run_machine_loop, one action per step of an iteration
\* ------------------------------------------------------------------------
\* number of payloads buffered in the read queues of the connections in map
RECURSIVE Buffered(_)
Buffered(map) ==
    IF map = {} THEN 0
    ELSE LET e == CHOOSE x \in map : TRUE
         IN  Len(e.value.read_queue) + Buffered(map \ {e})

\* what the guest may leave in its TX buffer at this yield: a packet that
\* is answered through the write queue only while that queue is short, an
\* RW packet only while few payloads are buffered
GuestMayEmit(request) ==
    receive_packet(request) # None =>
        /\ receive_packet(request)[1].hdr.op \in {VSOCK_OP_REQUEST, VSOCK_OP_RESPONSE} =>
              Len(cmio_write_queue) < MaxWriteQueue
        /\ receive_packet(request)[1].hdr.op = VSOCK_OP_RW =>
              Buffered(connections) < MaxBuffered

\* run_machine_until_yield(machine)? returns: the machine has yielded with
\* some CMIO request
run_machine_until_yield ==
    /\ pc = "run"
    /\ \E request \in CmioRequests :
         /\ GuestMayEmit(request)
         /\ cmio_request' = request
    /\ pc' = "receive"
    /\ yielded' = TRUE
    /\ n_receive' = 0
    /\ n_response' = 0
    /\ response' = NoResponse
    /\ UNCHANGED <<listeners, connections, connection_requests, cmio_write_queue,
                   cmio_read_queue, packet, dispatched, guest_rw, requests_enqueued>>
    /\ UNCHANGED non_runner_vars

\* let packet = receive_packet(machine)?;  the machine holds the request
\* until the yield is answered
ReceivePacket ==
    /\ pc = "receive"
    /\ packet' = receive_packet(cmio_request)
    /\ n_receive' = n_receive + 1
    /\ pc' = "respond"
    /\ UNCHANGED <<listeners, connections, connection_requests, cmio_write_queue,
                   cmio_read_queue, cmio_request, yielded, n_response, response,
                   dispatched, guest_rw, requests_enqueued>>
    /\ UNCHANGED non_runner_vars

\* (mutant) a queued packet is sent whether or not the guest transmitted
RespondPopsAlways ==
    /\ pc = "respond"
    /\ IF cmio_write_queue # <<>>
       THEN /\ response' = PacketResponse(VecPopped(cmio_write_queue))
            /\ cmio_write_queue' = VecPopRest(cmio_write_queue)
       ELSE /\ response' = EmptyResponse
            /\ UNCHANGED cmio_write_queue
    /\ cmio_read_queue' = IF packet # None THEN VecPush(cmio_read_queue, packet[1])
                          ELSE cmio_read_queue
    /\ n_response' = n_response + 1
    /\ packet' = None
    /\ cmio_request' = NoRequest
    /\ pc' = "drain"
    /\ UNCHANGED <<listeners, connections, connection_requests,
                   yielded, n_receive, dispatched, guest_rw, requests_enqueued>>
    /\ UNCHANGED non_runner_vars

\* (mutant) the guest's packet is queued without answering the yield
RespondSkipsReply ==
    /\ pc = "respond"
    /\ IF packet # None
       THEN /\ cmio_read_queue' = VecPush(cmio_read_queue, packet[1])
            /\ UNCHANGED <<response, n_response, cmio_write_queue>>
       ELSE /\ response' = EmptyResponse
            /\ n_response' = n_response + 1
            /\ UNCHANGED <<cmio_read_queue, cmio_write_queue>>
    /\ packet' = None
    /\ cmio_request' = NoRequest
    /\ pc' = "drain"
    /\ UNCHANGED <<listeners, connections, connection_requests,
                   yielded, n_receive, dispatched, guest_rw, requests_enqueued>>
    /\ UNCHANGED non_runner_vars

\* lines 246-258: answer the yield, with an empty response or with the
\* packet popped from the write queue
Respond ==
    /\ pc = "respond"
    /\ IF packet # None
       THEN /\ cmio_read_queue' = VecPush(cmio_read_queue, packet[1])
            /\ response' = EmptyResponse
            /\ UNCHANGED cmio_write_queue
       ELSE IF cmio_write_queue # <<>>
       THEN /\ response' = PacketResponse(VecPopped(cmio_write_queue))
            /\ cmio_write_queue' = VecPopRest(cmio_write_queue)
            /\ UNCHANGED cmio_read_queue
       ELSE /\ response' = EmptyResponse
            /\ UNCHANGED <<cmio_write_queue, cmio_read_queue>>
    /\ n_response' = n_response + 1
    /\ packet' = None
    /\ cmio_request' = NoRequest
    /\ pc' = "drain"
    /\ UNCHANGED <<listeners, connections, connection_requests,
                   yielded, n_receive, dispatched, guest_rw, requests_enqueued>>
    /\ UNCHANGED non_runner_vars

\* lines 261-360: handle all packets in cmio_read_queue
Drain ==
    /\ pc = "drain"
    /\ LET r == DrainReadQueue(State, None)
       IN  /\ SetState(r.st)
           /\ dispatched' = r.last
           /\ guest_rw' = RecordGuestRw(guest_rw, r.last)
    /\ requests_enqueued' = RecordRequests(requests_enqueued, cmio_write_queue, cmio_write_queue')
    /\ pc' = "walk_connections"
    /\ UNCHANGED <<cmio_request, packet, yielded, n_receive, n_response, response>>
    /\ UNCHANGED non_runner_vars

\* lines 363-378: one RW packet per connection with pending write data, in
\* the order the HashMap iteration visits the connections
WalkConnections ==
    /\ pc = "walk_connections"
    /\ LET pending == {e \in connections : e.value.write_queue # <<>>}
       IN  \E order \in IterationOrders(pending) :
             /\ connections' =
                  {IF e \in pending
                   THEN [e EXCEPT !.value.write_queue = VecPopRest(@)]
                   ELSE e : e \in connections}
             /\ cmio_write_queue' = cmio_write_queue \o
                  [i \in 1..Cardinality(pending) |->
                     construct_packet(order[i].value.port, VSOCK_OP_RW,
                                      VecPopped(order[i].value.write_queue))]
    /\ requests_enqueued' = RecordRequests(requests_enqueued, cmio_write_queue, cmio_write_queue')
    /\ pc' = "walk_requests"
    /\ dispatched' = None
    /\ UNCHANGED <<listeners, connection_requests, cmio_read_queue, cmio_request, packet,
                   yielded, n_receive, n_response, response, guest_rw>>
    /\ UNCHANGED non_runner_vars

\* (mutant) open_requested is never set
WalkConnectionRequestsKeepsFlag ==
    /\ pc = "walk_requests"
    /\ LET unopened == {e \in connection_requests : ~e.value.open_requested}
       IN  \E order \in IterationOrders(unopened) :
             /\ UNCHANGED connection_requests
             /\ cmio_write_queue' = cmio_write_queue \o
                  [i \in 1..Cardinality(unopened) |->
                     construct_packet(order[i].value.port, VSOCK_OP_REQUEST, <<>>)]
    /\ requests_enqueued' = RecordRequests(requests_enqueued, cmio_write_queue, cmio_write_queue')
    /\ pc' = "run"
    /\ UNCHANGED <<listeners, connections, cmio_read_queue, cmio_request, packet,
                   yielded, n_receive, n_response, response, dispatched, guest_rw>>
    /\ UNCHANGED non_runner_vars

\* lines 381-393: open every connection request not opened yet
WalkConnectionRequests ==
    /\ pc = "walk_requests"
    /\ LET unopened == {e \in connection_requests : ~e.value.open_requested}
       IN  \E order \in IterationOrders(unopened) :
             /\ connection_requests' =
                  {IF e \in unopened
                   THEN [e EXCEPT !.value.open_requested = TRUE]
                   ELSE e : e \in connection_requests}
             /\ cmio_write_queue' = cmio_write_queue \o
                  [i \in 1..Cardinality(unopened) |->
                     construct_packet(order[i].value.port, VSOCK_OP_REQUEST, <<>>)]
    /\ requests_enqueued' = RecordRequests(requests_enqueued, cmio_write_queue, cmio_write_queue')
    /\ pc' = "run"
    /\ UNCHANGED <<listeners, connections, cmio_read_queue, cmio_request, packet,
                   yielded, n_receive, n_response, response, dispatched, guest_rw>>
    /\ UNCHANGED non_runner_vars

\* a `?` on machine.run, receive_cmio_request or send_cmio_response returns
\* the error from run_machine_loop
MachineFails ==
    /\ pc \in {"run", "receive", "respond"}
    /\ pc' = "error"
    /\ UNCHANGED <<listeners, connections, connection_requests, cmio_write_queue,
                   cmio_read_queue, cmio_request, packet>>
    /\ UNCHANGED_history
    /\ UNCHANGED non_runner_vars

Next ==
    \/ listen
    \/ connect
    \/ run_machine_until_yield
    \/ ReceivePacket
    \/ Respond
    \/ Drain
    \/ WalkConnections
    \/ WalkConnectionRequests
    \/ MachineFails

Spec == Init /\ [][Next]_vars

\* ------------------------------------------------------------------------
\* Properties of the multiplexer
\* ------------------------------------------------------------------------
\* the dispatch of the packet recorded in `dispatched` has just completed
JustDispatched(op) ==
    /\ pc = "walk_connections"
    /\ dispatched # None
    /\ dispatched[1].pkt.hdr.op = op

DispatchedPacket == dispatched[1].pkt
Before == dispatched[1].before
Middle == dispatched[1].mid

\* C1: half-duplex tick rule.  In an iteration in which receive_packet
\* returned a guest packet the response sent is empty and the write queue
\* keeps all its packets; a packet leaves the write queue only as the
\* response of an iteration in which no guest packet was received.
C1_HalfDuplexTickRule ==
    [][ /\ (pc = "respond" /\ pc' = "drain" /\ packet # None) =>
              /\ response' = EmptyResponse
              /\ cmio_write_queue' = cmio_write_queue
        /\ (Len(cmio_write_queue') < Len(cmio_write_queue)) =>
              /\ pc = "respond"
              /\ packet = None
              /\ response' = PacketResponse(VecPopped(cmio_write_queue))
        /\ response'.kind = "packet" => packet = None
      ]_vars

\* C1 witness: the guest transmitted while a packet was queued, and the
\* yield was answered with the empty response
C1_Witness ==
    /\ pc = "drain"
    /\ cmio_read_queue # <<>>
    /\ cmio_write_queue # <<>>
    /\ response = EmptyResponse

\* C2: every yield is answered exactly once.  Between a return of
\* run_machine_until_yield and the next call of it there is exactly one
\* receive_packet and exactly one send_cmio_response, on every path.
C2_EveryYieldAnsweredOnce ==
    /\ n_receive <= 1
    /\ n_response <= 1
    /\ pc = "respond" => n_receive = 1 /\ n_response = 0
    /\ pc \in {"drain", "walk_connections", "walk_requests"} =>
          n_receive = 1 /\ n_response = 1 /\ response # NoResponse
    /\ (pc = "run" /\ yielded) =>
          n_receive = 1 /\ n_response = 1 /\ response # NoResponse

\* C2 witness: an iteration that received a guest packet has completed and
\* the loop is about to run the machine again
C2_Witness ==
    /\ pc = "run"
    /\ yielded
    /\ n_receive = 1
    /\ n_response = 1
    /\ connections # {}

\* C3: multiplexer ordering.  The read_queue of every connection holds
\* exactly the payloads of the RW packets the guest transmitted from that
\* port since the connection was established (or last reset / shut down),
\* in transmission order.
C3_MultiplexerOrdering ==
    \A e \in connections : e.value.read_queue = guest_rw[e.key]

\* C3 witness: two different payloads were delivered to one connection
C3_Witness ==
    \E e \in connections :
        /\ Len(e.value.read_queue) >= 2
        /\ e.value.read_queue[1] # e.value.read_queue[2]

\* C4: a REQUEST to a port with a listener enqueues a RESPONSE whose
\* dst_port is the REQUEST's src_port, and a connection for src_port exists.
C4_RequestAccepted ==
    (JustDispatched(VSOCK_OP_REQUEST)
        /\ get_listener(Before, DispatchedPacket.hdr.dst_port) # {}) =>
    /\ Len(cmio_write_queue) = Len(Before.cmio_write_queue) + 1
    /\ SubSeq(cmio_write_queue, 1, Len(Before.cmio_write_queue)) = Before.cmio_write_queue
    /\ VecPopped(cmio_write_queue).hdr.op = VSOCK_OP_RESPONSE
    /\ VecPopped(cmio_write_queue).hdr.dst_port = DispatchedPacket.hdr.src_port
    /\ DispatchedPacket.hdr.src_port \in Keys(connections)

\* C5: a REQUEST to a port without listener enqueues exactly one RST whose
\* dst_port is the REQUEST's src_port and creates neither a connection nor
\* a pending request.
C5_UnknownPort ==
    (JustDispatched(VSOCK_OP_REQUEST)
        /\ get_listener(Before, DispatchedPacket.hdr.dst_port) = {}) =>
    /\ Len(cmio_write_queue) = Len(Before.cmio_write_queue) + 1
    /\ SubSeq(cmio_write_queue, 1, Len(Before.cmio_write_queue)) = Before.cmio_write_queue
    /\ VecPopped(cmio_write_queue).hdr.op = VSOCK_OP_RST
    /\ VecPopped(cmio_write_queue).hdr.dst_port = DispatchedPacket.hdr.src_port
    /\ connections = Before.connections
    /\ connection_requests = Before.connection_requests

\* C6: after an RST from a known peer port (a connection or a pending
\* request) neither map contains that port.
C6_RstRemovesState ==
    (JustDispatched(VSOCK_OP_RST)
        /\ DispatchedPacket.hdr.src_port \in
              Keys(Before.connections) \cup Keys(Before.connection_requests)) =>
    /\ DispatchedPacket.hdr.src_port \notin Keys(connections)
    /\ DispatchedPacket.hdr.src_port \notin Keys(connection_requests)

\* C7: after a SHUTDOWN from a port with an established connection the
\* connection is gone from the connections map.
C7_ShutdownRemovesConnection ==
    (JustDispatched(VSOCK_OP_SHUTDOWN)
        /\ DispatchedPacket.hdr.src_port \in Keys(Before.connections)) =>
    DispatchedPacket.hdr.src_port \notin Keys(connections)

\* a RESPONSE that matches a pending connection request has been dispatched
ResponseMatched ==
    /\ dispatched # None
    /\ DispatchedPacket.hdr.op = VSOCK_OP_RESPONSE
    /\ get_connection_request(Before, DispatchedPacket.hdr.src_port) # {}

\* C8: a RESPONSE that matches a pending request removes the request and
\* creates the connection keyed by the request's target port in the same
\* dispatch, and between the two statements the port is in one of the maps.
C8_ResponseEstablishes ==
    ResponseMatched =>
        \A r \in get_connection_request(Before, DispatchedPacket.hdr.src_port) :
            /\ r.port \notin Keys(connection_requests)
            /\ get_connection(State, r.port) = {RunnerConnection_new(r.port)}
            /\ r.port \in Keys(Middle.connections) \cup Keys(Middle.connection_requests)

\* C8 witness: the dispatch of a matching RESPONSE has just completed
C8_Witness ==
    /\ pc = "walk_connections"
    /\ ResponseMatched

\* C9: at most one connection per peer port.  No two entries of the
\* connections map share a key, and every entry is keyed by its own port.
C9_AtMostOneConnectionPerPeer ==
    /\ \A e1, e2 \in connections : e1.key = e2.key => e1 = e2
    /\ \A e \in connections : e.value.port = e.key

\* C9 witness: a connection was established for a peer port that already
\* had a connection holding data
C9_Witness ==
    /\ pc = "walk_connections"
    /\ dispatched # None
    /\ Establishes(Before, DispatchedPacket)
    /\ \E c \in get_connection(Before, DispatchedPacket.hdr.src_port) : c.read_queue # <<>>

Packet_from_read(bytes) ==
    IF Len(bytes) < HDR_SIZE THEN Err("UnexpectedEof")
    ELSE LET hdr == VirtioVsockHdr_from_bytes(Slice(bytes, 0, HDR_SIZE))
         IN  IF hdr = None THEN Err("Invalid vsock header")
             ELSE IF hdr[1].len > MAX_PAYLOAD_LEN THEN Err("Payload too large")
             ELSE IF hdr[1].len > 0 /\ Len(bytes) - HDR_SIZE < hdr[1].len
                  THEN Err("UnexpectedEof")
             ELSE Ok(Packet_new(hdr[1], Slice(bytes, HDR_SIZE, HDR_SIZE + hdr[1].len)))

\* ---- the harness: Packet::new, to_bytes, a transport that may cut or
\* ---- extend the bytes, from_bytes, from_read
PayloadLens == (0..MaxShortPayload) \cup {MAX_PAYLOAD_LEN, MAX_PAYLOAD_LEN + 1}

PayloadOf(n) == [i \in 1..n |-> (7 * i) % 256]

\* headers whose ten fields all differ and fill several bytes, the header
\* construct_packet builds, and the all-zero header; len is set by the harness
HdrSamples ==
    {[src_cid |-> 16909060, dst_cid |-> 84281096, src_port |-> 151653132,
      dst_port |-> 219025168, len |-> 0, type_ |-> 4386, op |-> 13124,
      flags |-> 286397204, buf_alloc |-> 353769240, fwd_cnt |-> 2147483647],
     VirtioVsockHdr(HOST_CID, GUEST_CID, HOST_PORT, LOOP_REQUEST_PORT, 0, VSOCK_OP_RW),
     [src_cid |-> 0, dst_cid |-> 0, src_port |-> 0, dst_port |-> 0, len |-> 0,
      type_ |-> 0, op |-> 0, flags |-> 0, buf_alloc |-> 0, fwd_cnt |-> 0]}

CodecInit ==
    /\ runner_idle /\ yield_idle /\ nbd_idle /\ hc_idle /\ ext_idle
    /\ codec_pc = "new"
    /\ \E h \in HdrSamples, len \in PayloadLens, n \in PayloadLens :
         codec_packet = Some(Packet_new([h EXCEPT !.len = len], PayloadOf(n)))
    /\ codec_bytes = <<>>
    /\ codec_from_bytes = None
    /\ codec_from_read = None

codec_others == <<runner_vars, yield_vars, nbd_vars, hc_vars, ext_vars>>

CodecToBytes ==
    /\ codec_pc = "new"
    /\ codec_bytes' = Packet_to_bytes(codec_packet[1])
    /\ codec_pc' = "bytes"
    /\ UNCHANGED <<codec_packet, codec_from_bytes, codec_from_read>>
    /\ UNCHANGED codec_others

\* the transport delivers only a prefix of the bytes
CodecTruncate ==
    /\ codec_pc = "bytes"
    /\ \E k \in {0, HDR_SIZE - 1, HDR_SIZE, Len(codec_bytes) - 1} :
         /\ k < Len(codec_bytes)
         /\ codec_bytes' = SubSeq(codec_bytes, 1, k)
    /\ codec_pc' = "delivered"
    /\ UNCHANGED <<codec_packet, codec_from_bytes, codec_from_read>>
    /\ UNCHANGED codec_others

\* the transport delivers the bytes followed by one more byte
CodecExtend ==
    /\ codec_pc = "bytes"
    /\ codec_bytes' = Append(codec_bytes, 255)
    /\ codec_pc' = "delivered"
    /\ UNCHANGED <<codec_packet, codec_from_bytes, codec_from_read>>
    /\ UNCHANGED codec_others

CodecFromBytes ==
    /\ codec_pc \in {"bytes", "delivered"}
    /\ codec_from_bytes' = Packet_from_bytes(codec_bytes)
    /\ codec_pc' = "from_bytes"
    /\ UNCHANGED <<codec_packet, codec_bytes, codec_from_read>>
    /\ UNCHANGED codec_others

CodecFromRead ==
    /\ codec_pc = "from_bytes"
    /\ codec_from_read' = Packet_from_read(codec_bytes)
    /\ codec_pc' = "from_read"
    /\ UNCHANGED <<codec_packet, codec_bytes, codec_from_bytes>>
    /\ UNCHANGED codec_others

CodecNext ==
    \/ CodecToBytes
    \/ CodecTruncate
    \/ CodecExtend
    \/ CodecFromBytes
    \/ CodecFromRead

CodecSpec == CodecInit /\ [][CodecNext]_vars

\* ------------------------------------------------------------------------
\* Properties of the codec
\* ------------------------------------------------------------------------
\* Packet::from_bytes has been applied to exactly Packet::new(h, p).to_bytes()
DecodedOwnBytes ==
    /\ codec_from_bytes # None
    /\ codec_bytes = Packet_to_bytes(codec_packet[1])

\* the length the first 36 bytes of the input declare
DeclaredLen == u32_from_le_bytes(Slice(codec_bytes, 16, 20))

\* C11: codec round-trip.  Whenever Packet::from_bytes is applied to
\* Packet::new(h, p).to_bytes() with Len(p) = h.len <= 4096, it succeeds and
\* returns a packet with exactly the header h (all ten fields) and payload p.
C11_CodecRoundTrip ==
    (/\ DecodedOwnBytes
     /\ Len(codec_packet[1].payload) = codec_packet[1].hdr.len
     /\ codec_packet[1].hdr.len <= MAX_PAYLOAD_LEN)
    => /\ codec_from_bytes.ok
       /\ codec_from_bytes.value[1].payload = codec_packet[1].payload
       /\ \A f \in {"src_cid", "dst_cid", "src_port", "dst_port", "len",
                    "type_", "op", "flags", "buf_alloc", "fwd_cnt"} :
            codec_from_bytes.value[1].hdr[f] = codec_packet[1].hdr[f]

\* a packet of the largest payload, all header fields distinct, has gone
\* through to_bytes and from_bytes
C11_Witness ==
    /\ DecodedOwnBytes
    /\ Len(codec_packet[1].payload) = MAX_PAYLOAD_LEN
    /\ codec_packet[1].hdr.len = MAX_PAYLOAD_LEN
    /\ codec_packet[1].hdr.type_ # codec_packet[1].hdr.op
    /\ codec_from_bytes.ok

\* C12: codec rejection.  Packet::from_bytes fails for every input shorter
\* than 36 bytes, for every input whose header declares len > 4096 whatever
\* the input length, and for every input shorter than 36 + declared len.
C12_CodecRejection ==
    codec_from_bytes # None =>
        /\ Len(codec_bytes) < HDR_SIZE => ~codec_from_bytes.ok
        /\ (Len(codec_bytes) >= HDR_SIZE /\ DeclaredLen > MAX_PAYLOAD_LEN)
              => ~codec_from_bytes.ok
        /\ (Len(codec_bytes) >= HDR_SIZE /\ Len(codec_bytes) < HDR_SIZE + DeclaredLen)
              => ~codec_from_bytes.ok

\* ========================================================================
\* Part 3: the CMIO yield word
\*         (src/packages/guest-agent/crates/cmio/src/lib.rs, pack / unpack)
\* ========================================================================
\* An unsigned integer of N bits is the string of its N/8 bytes, least
\* significant byte first, so that a u64 keeps its full width.  Every shift
\* of pack and unpack is by a multiple of 8 bits.

\* x as u64 (zero extension)
as_u64(x) == x \o [i \in 1..(8 - Len(x)) |-> 0]

\* x as u8, x as u16, x as u32 (truncation)
as_u8(x) == SubSeq(x, 1, 1)

as_u16(x) == SubSeq(x, 1, 2)

as_u32(x) == SubSeq(x, 1, 4)

\* x << bits and x >> bits on a u64
shl(x, bits) ==
    [i \in 1..Len(x) |-> IF i <= bits \div 8 THEN 0 ELSE x[i - bits \div 8]]

shr(x, bits) ==
    [i \in 1..Len(x) |-> IF i + bits \div 8 <= Len(x) THEN x[i + bits \div 8] ELSE 0]

\* a | b on the low n bits of two bytes
RECURSIVE or_bits(_, _, _)
or_bits(a, b, n) ==
    IF n = 0 THEN 0
    ELSE (IF a % 2 = 1 \/ b % 2 = 1 THEN 1 ELSE 0)
         + 2 * or_bits(a \div 2, b \div 2, n - 1)

\* x | y
bitor(x, y) == [i \in 1..Len(x) |-> or_bits(x[i], y[i], 8)]

CmioYield(dev, cmd, reason, data) ==
    [dev |-> dev, cmd |-> cmd, reason |-> reason, data |-> data]

\* (mutant) reason is shifted by 24 bits only
pack_reason_low(yield_data_) ==
    bitor(bitor(bitor(shl(as_u64(yield_data_.dev), 56),
                      shl(as_u64(yield_data_.cmd), 48)),
                shl(as_u64(yield_data_.reason), 24)),
          as_u64(yield_data_.data))

pack(yield_data_) ==
    bitor(bitor(bitor(shl(as_u64(yield_data_.dev), 56),
                      shl(as_u64(yield_data_.cmd), 48)),
                shl(as_u64(yield_data_.reason), 32)),
          as_u64(yield_data_.data))

unpack(x) ==
    CmioYield(as_u8(shr(x, 56)), as_u8(shr(x, 48)), as_u16(shr(x, 32)), as_u32(x))

\* ---- the harness: yield_control packs, the emulator's ioctl may rewrite
\* ---- the word, yield_control unpacks
ByteSamples == {0, 1, 128, 255}

U8Samples == {<<b>> : b \in ByteSamples}

U16Samples == {<<0, 0>>, <<3, 0>>, <<0, 1>>, <<255, 255>>}

U32Samples == {<<0, 0, 0, 0>>, <<4, 0, 0, 0>>, <<1, 2, 3, 128>>, <<255, 255, 255, 255>>}

YieldInit ==
    /\ runner_idle /\ codec_idle /\ nbd_idle /\ hc_idle /\ ext_idle
    /\ yield_pc = "new"
    /\ \E dev \in U8Samples, cmd \in U8Samples, reason \in U16Samples, data \in U32Samples :
         yield_data = Some(CmioYield(dev, cmd, reason, data))
    /\ yield_packed = None
    /\ yield_unpacked = None

yield_others == <<runner_vars, codec_vars, nbd_vars, hc_vars, ext_vars>>

\* let req = Self::pack(yield_data)
YieldPack ==
    /\ yield_pc = "new"
    /\ yield_packed' = Some(pack(yield_data[1]))
    /\ yield_pc' = "packed"
    /\ UNCHANGED <<yield_data, yield_unpacked>>
    /\ UNCHANGED yield_others

\* cmio_yield(fd, &mut response): the emulator writes its answer in the word
YieldIoctl ==
    /\ yield_pc = "packed"
    /\ \E dev \in U8Samples, reason \in U16Samples :
         yield_packed' = Some(yield_data[1].data \o reason \o yield_data[1].cmd \o dev)
    /\ yield_pc' = "answered"
    /\ UNCHANGED <<yield_data, yield_unpacked>>
    /\ UNCHANGED yield_others

\* *yield_data = Self::unpack(response)
YieldUnpack ==
    /\ yield_pc \in {"packed", "answered"}
    /\ yield_unpacked' = Some(unpack(yield_packed[1]))
    /\ yield_pc' = "unpacked"
    /\ UNCHANGED <<yield_data, yield_packed>>
    /\ UNCHANGED yield_others

YieldNext ==
    \/ YieldPack
    \/ YieldIoctl
    \/ YieldUnpack

YieldSpec == YieldInit /\ [][YieldNext]_vars

\* ------------------------------------------------------------------------
\* Properties of the yield word
\* ------------------------------------------------------------------------
\* unpack has been applied to exactly pack(yield_data)
UnpackedOwnWord ==
    /\ yield_unpacked # None
    /\ yield_pc = "unpacked"
    /\ yield_packed = Some(pack(yield_data[1]))

\* C13: yield packing round-trip.  For every dev, cmd (8 bit), reason
\* (16 bit) and data (32 bit), unpack(pack(x)) has the same four fields, and
\* the packed word holds each field in bits of its own: data in bits 0..31,
\* reason in bits 32..47, cmd in bits 48..55, dev in bits 56..63.
C13_YieldPackRoundTrip ==
    /\ yield_packed # None /\ yield_pc = "packed" =>
          yield_packed[1] = yield_data[1].data \o yield_data[1].reason
                            \o yield_data[1].cmd \o yield_data[1].dev
    /\ UnpackedOwnWord =>
          /\ yield_unpacked[1].dev = yield_data[1].dev
          /\ yield_unpacked[1].cmd = yield_data[1].cmd
          /\ yield_unpacked[1].reason = yield_data[1].reason
          /\ yield_unpacked[1].data = yield_data[1].data

\* the round trip of a word with every bit of reason and data set next to
\* an all-zero cmd: a field that overflowed would show in its neighbour
C13_Witness ==
    /\ UnpackedOwnWord
    /\ yield_data[1].reason = <<255, 255>>
    /\ yield_data[1].data = <<255, 255, 255, 255>>
    /\ yield_data[1].cmd = <<0>>
    /\ yield_data[1].dev = <<128>>

\* ========================================================================
\* Part 4: the NBD server (src/cartesi-nbd-server/src/lib.rs)
\* ========================================================================
\* u64, usize (64 bit) and u32 values are byte strings, least significant
\* byte first, as in Part 3; u16 values are numbers.
NBD_MAGIC == <<67, 73, 71, 65, 77, 68, 66, 78>>
NBD_OPT_MAGIC == <<84, 80, 79, 69, 86, 65, 72, 73>>
NBD_REQUEST_MAGIC == 627086611
NBD_RESPONSE_MAGIC == 1732536984
NBD_CMD_READ == 0
NBD_CMD_WRITE == 1
NBD_CMD_DISC == 2
NBD_SUCCESS == 0
NBD_EINVAL == 1
\* the size of the buffer Request::from_stream fills
REQUEST_SIZE == 28
\* the size of the buffer perform_handshake sends
HANDSHAKE_SIZE == 124

\* the size of the export, InMemoryExport::new(ExportSize)
ExportSize == 2
\* the requests all clients send, taken together
MaxRequests == 2

\* the TCP connections the acceptor may accept, in this order
Conns == {1, 2}

\* ---- arithmetic on byte strings
Reverse(s) == [i \in 1..Len(s) |-> s[Len(s) + 1 - i]]

\* n as usize, for a small number n
usize(n) == as_u64(u32_to_le_bytes(n))

usize_MAX == [i \in 1..8 |-> 255]

\* x + y with the carry out of the top byte appended
RECURSIVE add_bytes(_, _, _, _)
add_bytes(x, y, i, carry) ==
    IF i > Len(x) THEN <<carry>>
    ELSE <<(x[i] + y[i] + carry) % 256>>
         \o add_bytes(x, y, i + 1, (x[i] + y[i] + carry) \div 256)

\* usize::saturating_add
saturating_add(x, y) ==
    LET sum == add_bytes(x, y, 1, 0)
    IN  IF sum[Len(x) + 1] # 0 THEN usize_MAX ELSE SubSeq(sum, 1, Len(x))

\* x <= y, compared from byte i down
RECURSIVE less_eq_from(_, _, _)
less_eq_from(x, y, i) ==
    IF i = 0 THEN TRUE
    ELSE IF x[i] < y[i] THEN TRUE
    ELSE IF x[i] > y[i] THEN FALSE
    ELSE less_eq_from(x, y, i - 1)

less_eq(x, y) == less_eq_from(x, y, Len(x))

\* the number a usize not above a Vec's length stands for
index(x) == u32_from_le_bytes(as_u32(x))

\* Vec::get_mut(start..end): the range, when start <= end <= len
get_mut(data, start, end) ==
    IF less_eq(start, end) /\ less_eq(end, usize(Len(data)))
    THEN Some([start |-> index(start), end |-> index(end)])
    ELSE None

\* ---- byteorder::BigEndian
BigEndian_read_u16(buf) == 256 * buf[1] + buf[2]

BigEndian_read_u32(buf) == Reverse(buf)

BigEndian_read_u64(buf) == Reverse(buf)

BigEndian_write_u16(n) == <<n \div 256, n % 256>>

BigEndian_write_u32(x) == Reverse(x)

BigEndian_write_u64(x) == Reverse(x)

\* ---- InMemoryExport
InMemoryExport_new(size) == [i \in 1..size |-> 0]

InMemoryExport_read(data, offset, len) ==
    LET start == offset
        end == saturating_add(start, as_u64(len))
        range == get_mut(data, start, end)
    IN  IF range # None
        THEN Ok(SubSeq(data, range[1].start + 1, range[1].end))
        ELSE Err("Read out of bounds")

\* (mutant) the first byte of the range is not copied
InMemoryExport_write_skips_first(data, offset, buf) ==
    LET start == offset
        end == saturating_add(start, usize(Len(buf)))
        range == get_mut(data, start, end)
    IN  IF range # None
        THEN [result |-> Ok(<<>>),
              data |-> [i \in 1..Len(data) |->
                          IF range[1].start + 1 < i /\ i <= range[1].end
                          THEN buf[i - range[1].start]
                          ELSE data[i]]]
        ELSE [result |-> Err("Write out of bounds"), data |-> data]

\* (mutant) a range that ends past the export is written as far as it fits
InMemoryExport_write_partial(data, offset, buf) ==
    LET start == offset
        end == saturating_add(start, usize(Len(buf)))
        range == get_mut(data, start, end)
    IN  IF range # None
        THEN [result |-> Ok(<<>>),
              data |-> [i \in 1..Len(data) |->
                          IF range[1].start < i /\ i <= range[1].end
                          THEN buf[i - range[1].start]
                          ELSE data[i]]]
        ELSE [result |-> Err("Write out of bounds"),
              data |-> IF less_eq(start, usize(Len(data)))
                       THEN [i \in 1..Len(data) |->
                               IF index(start) < i /\ i - index(start) <= Len(buf)
                               THEN buf[i - index(start)] ELSE data[i]]
                       ELSE data]

\* the io::Result and the Vec after the call
InMemoryExport_write(data, offset, buf) ==
    LET start == offset
        end == saturating_add(start, usize(Len(buf)))
        range == get_mut(data, start, end)
    IN  IF range # None
        THEN [result |-> Ok(<<>>),
              data |-> [i \in 1..Len(data) |->
                          IF range[1].start < i /\ i <= range[1].end
                          THEN buf[i - range[1].start]
                          ELSE data[i]]]
        ELSE [result |-> Err("Write out of bounds"), data |-> data]

InMemoryExport_size(data) == usize(Len(data))

\* ---- Request and Response
\* (mutant) the magic is not compared
Request_from_stream_any_magic(buf) ==
    Ok([command |-> BigEndian_read_u16(Slice(buf, 4, 6)),
        handle  |-> BigEndian_read_u64(Slice(buf, 8, 16)),
        offset  |-> BigEndian_read_u64(Slice(buf, 16, 24)),
        length  |-> BigEndian_read_u32(Slice(buf, 24, 28))])

\* Request::from_stream once read_exact has filled the 28-byte buffer
Request_from_stream(buf) ==
    IF BigEndian_read_u32(Slice(buf, 0, 4)) # u32_to_le_bytes(NBD_REQUEST_MAGIC)
    THEN Err("Invalid NBD request magic")
    ELSE Ok([command |-> BigEndian_read_u16(Slice(buf, 4, 6)),
             handle  |-> BigEndian_read_u64(Slice(buf, 8, 16)),
             offset  |-> BigEndian_read_u64(Slice(buf, 16, 24)),
             length  |-> BigEndian_read_u32(Slice(buf, 24, 28))])

Response_new(handle, error) == [handle |-> handle, error |-> error]

\* the 16 bytes Response::write_to sends
Response_write_to(r) ==
    BigEndian_write_u32(u32_to_le_bytes(NBD_RESPONSE_MAGIC))
    \o BigEndian_write_u32(u32_to_le_bytes(r.error))
    \o BigEndian_write_u64(r.handle)

\* the 124 bytes perform_handshake sends
perform_handshake(export_size) ==
    BigEndian_write_u64(NBD_MAGIC) \o BigEndian_write_u64(NBD_OPT_MAGIC)
    \o BigEndian_write_u64(export_size) \o BigEndian_write_u16(0)
    \o [i \in 1..(HANDSHAKE_SIZE - 26) |-> 0]

\* (mutant) a command that is not READ or WRITE ends the session
handle_request_command_ends(command) ==
    IF command = NBD_CMD_READ THEN "read_lock"
    ELSE IF command = NBD_CMD_WRITE THEN "write_body"
    ELSE "returned_ok"

\* handle_request_command, the match on request.command: where the task
\* goes next
handle_request_command(command) ==
    IF command = NBD_CMD_READ THEN "read_lock"
    ELSE IF command = NBD_CMD_WRITE THEN "write_body"
    ELSE IF command = NBD_CMD_DISC THEN "returned_ok"
    ELSE "einval_reply"

\* ---- the clients (the environment)
\* the 28 bytes of a request as a client lays them out
ClientRequest(magic, command, handle, offset, length) ==
    Reverse(u32_to_le_bytes(magic)) \o <<command \div 256, command % 256>> \o <<0, 0>>
    \o Reverse(handle) \o Reverse(offset) \o Reverse(length)

\* the handle of a request of connection i, the n-th request sent in all
ClientHandle(i, n) == <<n, i, 0, 0, 0, 0, 0, 128>>

\* the payload connection i writes
ClientPayload(i, len) == [k \in 1..len |-> 16 * i + k]

\* (offset, length) of the requests: the whole export, its second byte, a
\* range ending one byte past the end, a range whose end overflows
ClientRanges ==
    {[offset |-> usize(0), length |-> ExportSize],
     [offset |-> usize(1), length |-> 1],
     [offset |-> usize(1), length |-> ExportSize],
     [offset |-> usize_MAX, length |-> 1]}

\* what connection i may send as the n-th request: READ and WRITE of each
\* range, a WRITE whose payload stops one byte short, DISCONNECT, command
\* 3, and a request with a zero magic
ClientSends(i, n) ==
    {ClientRequest(NBD_REQUEST_MAGIC, NBD_CMD_READ, ClientHandle(i, n),
                   r.offset, u32_to_le_bytes(r.length)) : r \in ClientRanges}
    \cup
    {ClientRequest(NBD_REQUEST_MAGIC, NBD_CMD_WRITE, ClientHandle(i, n),
                   r.offset, u32_to_le_bytes(r.length))
       \o ClientPayload(i, r.length) : r \in ClientRanges}
    \cup
    {ClientRequest(NBD_REQUEST_MAGIC, NBD_CMD_WRITE, ClientHandle(i, n),
                   usize(0), u32_to_le_bytes(ExportSize))
       \o ClientPayload(i, ExportSize - 1),
     ClientRequest(NBD_REQUEST_MAGIC, NBD_CMD_DISC, ClientHandle(i, n),
                   usize(0), u32_to_le_bytes(0)),
     ClientRequest(NBD_REQUEST_MAGIC, 3, ClientHandle(i, n),
                   usize(0), u32_to_le_bytes(1)),
     ClientRequest(0, NBD_CMD_READ, ClientHandle(i, n),
                   usize(0), u32_to_le_bytes(1))}

\* ---- the tasks
\* a handle_client task: its position, the locals of handle_client,
\* handle_requests and handle_request_command, and what it has observed
\* (history: replies, the chunks written for the request at hand;
\* export_used, the export was locked for it; expected, what the successful
\* WRITEs had left in the range it read; after_einval, the request before
\* it had an unknown command; began_after and accepted_after, the tasks
\* that had returned when the request was parsed, the connection accepted;
\* ended, why the task returned)
NewTask ==
    [pc |-> "unspawned", export_size |-> None, request |-> None,
     buffer |-> <<>>, data |-> <<>>,
     replies |-> <<>>, export_used |-> FALSE, expected |-> None,
     after_einval |-> FALSE, began_after |-> {}, accepted_after |-> {},
     ended |-> ""]

NewStream == [inbuf |-> <<>>, in_closed |-> FALSE]

\* the positions at which a task waits on its socket
SocketPcs == {"handshake", "request", "write_body", "read_reply", "read_data",
              "write_reply", "einval_reply"}

\* the positions of a task that has returned from handle_client
ReturnedPcs == {"returned_ok", "returned_err"}

\* what the last finished piece of work of a task was
Last(i, kind, t, outcome) ==
    Some([conn |-> i, kind |-> kind, request |-> t.request, replies |-> t.replies,
          export_used |-> t.export_used, expected |-> t.expected,
          outcome |-> outcome, began_after |-> t.began_after,
          after_einval |-> t.after_einval])

\* the task back at the top of the loop of handle_requests
NextRequest(t) ==
    [t EXCEPT !.pc = "request", !.request = None, !.buffer = <<>>, !.data = <<>>,
              !.replies = <<>>, !.export_used = FALSE, !.expected = None,
              !.began_after = {}]

\* the task after handle_client has returned
Returned(t, pc_, why) ==
    [t EXCEPT !.pc = pc_, !.ended = why, !.after_einval = FALSE, !.request = None, !.buffer = <<>>, !.data = <<>>,
              !.replies = <<>>, !.export_used = FALSE, !.expected = None,
              !.began_after = {}]

\* the bytes the successful WRITEs have left in [offset, offset + len), for
\* a range inside the export
ShadowSlice(shadow, offset, len) == [k \in 1..len |-> shadow[offset + k].byte]

\* the range of request req lies inside an export of size bytes
InBounds(req, size) ==
    /\ \A k \in 5..8 : req.offset[k] = 0
    /\ \A k \in 3..4 : req.offset[k] = 0 /\ req.length[k] = 0
    /\ index(req.offset) + index(as_u64(req.length)) <= size

NbdInit ==
    /\ runner_idle /\ codec_idle /\ yield_idle /\ hc_idle /\ ext_idle
    /\ nbd_acceptor = "accepting"
    /\ nbd_export = InMemoryExport_new(ExportSize)
    /\ nbd_mutex = 0
    /\ nbd_tasks = [i \in Conns |-> NewTask]
    /\ nbd_streams = [i \in Conns |-> NewStream]
    /\ nbd_in_export = {}
    /\ nbd_shadow = [k \in 1..ExportSize |-> [byte |-> 0, conn |-> 0]]
    /\ nbd_last = None
    /\ nbd_sent = 0

nbd_others == <<runner_vars, codec_vars, yield_vars, hc_vars, ext_vars>>

\* Server::run: accept a connection and spawn its handle_client task
NbdAccept ==
    /\ nbd_acceptor = "accepting"
    /\ \E i \in Conns :
         /\ nbd_tasks[i].pc = "unspawned"
         /\ \A j \in Conns : j < i => nbd_tasks[j].pc # "unspawned"
         /\ nbd_tasks' = [nbd_tasks EXCEPT
                ![i].pc = "size",
                ![i].accepted_after = {k \in Conns : nbd_tasks[k].pc \in ReturnedPcs}]
    /\ UNCHANGED <<nbd_acceptor, nbd_export, nbd_mutex, nbd_streams, nbd_in_export,
                   nbd_shadow>>
    /\ nbd_last' = None
    /\ UNCHANGED nbd_sent
    /\ UNCHANGED nbd_others

\* Server::run: accept() returns an error and unwrap() panics
NbdAcceptFails ==
    /\ nbd_acceptor = "accepting"
    /\ nbd_acceptor' = "panicked"
    /\ UNCHANGED <<nbd_export, nbd_mutex, nbd_tasks, nbd_streams, nbd_in_export,
                   nbd_shadow>>
    /\ nbd_last' = None
    /\ UNCHANGED nbd_sent
    /\ UNCHANGED nbd_others

\* handle_client: export.lock().await.size()
NbdExportSize ==
    /\ \E i \in Conns :
         /\ nbd_tasks[i].pc = "size"
         /\ nbd_mutex = 0
         /\ nbd_tasks' = [nbd_tasks EXCEPT ![i].pc = "handshake",
                                           ![i].export_size = Some(InMemoryExport_size(nbd_export))]
    /\ UNCHANGED <<nbd_acceptor, nbd_export, nbd_mutex, nbd_streams, nbd_in_export,
                   nbd_shadow>>
    /\ nbd_last' = None
    /\ UNCHANGED nbd_sent
    /\ UNCHANGED nbd_others

\* handle_client: perform_handshake(&mut stream, export_size)
NbdHandshake ==
    /\ \E i \in Conns :
         LET t == nbd_tasks[i]
             sent == [t EXCEPT !.replies = <<perform_handshake(t.export_size[1])>>]
         IN  /\ t.pc = "handshake"
             /\ nbd_tasks' = [nbd_tasks EXCEPT ![i] = NextRequest(t)]
             /\ nbd_last' = Last(i, "handshake", sent, "served")
    /\ UNCHANGED <<nbd_acceptor, nbd_export, nbd_mutex, nbd_streams, nbd_in_export,
                   nbd_shadow>>
    /\ UNCHANGED nbd_sent
    /\ UNCHANGED nbd_others

\* handle_requests: Request::from_stream, then the match of
\* handle_request_command.  With 28 bytes to read the request is parsed;
\* with fewer and the client's side closed read_exact reports UnexpectedEof
\* and handle_requests returns Ok(()).
NbdRequest ==
    /\ \E i \in Conns :
         LET t == nbd_tasks[i]
             s == nbd_streams[i]
         IN  /\ t.pc = "request"
             /\ IF Len(s.inbuf) >= REQUEST_SIZE
                THEN LET r == Request_from_stream(SubSeq(s.inbuf, 1, REQUEST_SIZE))
                         began == [t EXCEPT !.request = r.value,
                                            !.began_after =
                                               {k \in Conns : nbd_tasks[k].pc \in ReturnedPcs}]
                     IN  /\ nbd_streams' = [nbd_streams EXCEPT
                                 ![i].inbuf = SubSeq(s.inbuf, REQUEST_SIZE + 1, Len(s.inbuf))]
                         /\ IF ~r.ok
                            THEN /\ nbd_tasks' = [nbd_tasks EXCEPT ![i] = Returned(t, "returned_err", "bad_magic")]
                                 /\ nbd_last' = Last(i, "bad_magic", t, "error")
                            ELSE IF handle_request_command(r.value[1].command) = "returned_ok"
                            THEN /\ nbd_tasks' = [nbd_tasks EXCEPT ![i] = Returned(t, "returned_ok", "disconnect")]
                                 /\ nbd_last' = Last(i, "request", began, "disconnect")
                            ELSE /\ nbd_tasks' = [nbd_tasks EXCEPT ![i] =
                                      [began EXCEPT !.pc = handle_request_command(r.value[1].command)]]
                                 /\ nbd_last' = None
                ELSE /\ s.in_closed
                     /\ nbd_tasks' = [nbd_tasks EXCEPT ![i] = Returned(t, "returned_ok", "eof")]
                     /\ nbd_last' = Last(i, "eof", t, "disconnect")
                     /\ UNCHANGED nbd_streams
    /\ UNCHANGED <<nbd_acceptor, nbd_export, nbd_mutex, nbd_in_export, nbd_shadow>>
    /\ UNCHANGED nbd_sent
    /\ UNCHANGED nbd_others

\* NBD_CMD_WRITE: stream.read_exact(&mut buffer) for request.length bytes;
\* UnexpectedEof here is returned as an error
NbdWriteBody ==
    /\ \E i \in Conns :
         LET t == nbd_tasks[i]
             s == nbd_streams[i]
             length == as_u64(t.request[1].length)
         IN  /\ t.pc = "write_body"
             /\ IF less_eq(length, usize(Len(s.inbuf)))
                THEN /\ nbd_tasks' = [nbd_tasks EXCEPT
                            ![i].pc = "write_lock",
                            ![i].buffer = SubSeq(s.inbuf, 1, index(length))]
                     /\ nbd_streams' = [nbd_streams EXCEPT
                            ![i].inbuf = SubSeq(s.inbuf, index(length) + 1, Len(s.inbuf))]
                     /\ nbd_last' = None
                ELSE /\ s.in_closed
                     /\ nbd_tasks' = [nbd_tasks EXCEPT ![i] = Returned(t, "returned_err", "error")]
                     /\ nbd_last' = Last(i, "request", t, "error")
                     /\ UNCHANGED nbd_streams
    /\ UNCHANGED <<nbd_acceptor, nbd_export, nbd_mutex, nbd_in_export, nbd_shadow>>
    /\ UNCHANGED nbd_sent
    /\ UNCHANGED nbd_others

\* (mutant) the export operation starts without waiting for the mutex
NbdExportLockNoWait ==
    /\ \E i \in Conns :
         LET t == nbd_tasks[i]
         IN  /\ t.pc \in {"read_lock", "write_lock"}
             /\ nbd_mutex' = i
             /\ nbd_in_export' = nbd_in_export \cup {i}
             /\ nbd_tasks' = [nbd_tasks EXCEPT
                    ![i].pc = IF t.pc = "read_lock" THEN "read_export" ELSE "write_export",
                    ![i].export_used = TRUE]
    /\ UNCHANGED <<nbd_acceptor, nbd_export, nbd_streams, nbd_shadow>>
    /\ nbd_last' = None
    /\ UNCHANGED nbd_sent
    /\ UNCHANGED nbd_others

\* export.lock().await returns the guard and Export::read / write is called
NbdExportLock ==
    /\ \E i \in Conns :
         LET t == nbd_tasks[i]
         IN  /\ t.pc \in {"read_lock", "write_lock"}
             /\ nbd_mutex = 0
             /\ nbd_mutex' = i
             /\ nbd_in_export' = nbd_in_export \cup {i}
             /\ nbd_tasks' = [nbd_tasks EXCEPT
                    ![i].pc = IF t.pc = "read_lock" THEN "read_export" ELSE "write_export",
                    ![i].export_used = TRUE]
    /\ UNCHANGED <<nbd_acceptor, nbd_export, nbd_streams, nbd_shadow>>
    /\ nbd_last' = None
    /\ UNCHANGED nbd_sent
    /\ UNCHANGED nbd_others

\* (mutant) an export error returns without dropping the guard
NbdExportReadKeepsGuard ==
    /\ \E i \in Conns :
         LET t == nbd_tasks[i]
             req == t.request[1]
             r == InMemoryExport_read(nbd_export, req.offset, req.length)
         IN  /\ t.pc = "read_export"
             /\ nbd_in_export' = nbd_in_export \ {i}
             /\ IF r.ok
                THEN /\ nbd_tasks' = [nbd_tasks EXCEPT
                            ![i].pc = "read_reply",
                            ![i].data = r.value[1],
                            ![i].expected =
                                IF InBounds(req, ExportSize)
                                THEN Some(ShadowSlice(nbd_shadow, index(req.offset),
                                                      index(as_u64(req.length))))
                                ELSE None]
                     /\ nbd_mutex' = 0
                     /\ nbd_last' = None
                ELSE /\ nbd_tasks' = [nbd_tasks EXCEPT ![i] = Returned(t, "returned_err", "error")]
                     /\ nbd_last' = Last(i, "request", t, "error")
                     /\ UNCHANGED nbd_mutex
    /\ UNCHANGED <<nbd_acceptor, nbd_export, nbd_streams, nbd_shadow>>
    /\ UNCHANGED nbd_sent
    /\ UNCHANGED nbd_others

\* NBD_CMD_READ: Export::read returns and the guard is dropped at the end
\* of the statement; an error is returned by `?`
NbdExportRead ==
    /\ \E i \in Conns :
         LET t == nbd_tasks[i]
             req == t.request[1]
             r == InMemoryExport_read(nbd_export, req.offset, req.length)
         IN  /\ t.pc = "read_export"
             /\ nbd_mutex' = 0
             /\ nbd_in_export' = nbd_in_export \ {i}
             /\ IF r.ok
                THEN /\ nbd_tasks' = [nbd_tasks EXCEPT
                            ![i].pc = "read_reply",
                            ![i].data = r.value[1],
                            ![i].expected =
                                IF InBounds(req, ExportSize)
                                THEN Some(ShadowSlice(nbd_shadow, index(req.offset),
                                                      index(as_u64(req.length))))
                                ELSE None]
                     /\ nbd_last' = None
                ELSE /\ nbd_tasks' = [nbd_tasks EXCEPT ![i] = Returned(t, "returned_err", "error")]
                     /\ nbd_last' = Last(i, "request", t, "error")
    /\ UNCHANGED <<nbd_acceptor, nbd_export, nbd_streams, nbd_shadow>>
    /\ UNCHANGED nbd_sent
    /\ UNCHANGED nbd_others

\* (mutant) the guard of the WRITE arm is bound to a name and lives until the
\* reply has been written
NbdExportWriteHoldsGuard ==
    /\ \E i \in Conns :
         LET t == nbd_tasks[i]
             req == t.request[1]
             w == InMemoryExport_write(nbd_export, req.offset, t.buffer)
         IN  /\ t.pc = "write_export"
             /\ nbd_in_export' = nbd_in_export \ {i}
             /\ nbd_export' = w.data
             /\ IF w.result.ok
                THEN /\ nbd_tasks' = [nbd_tasks EXCEPT ![i].pc = "write_reply"]
                     /\ UNCHANGED nbd_mutex
                     /\ nbd_shadow' =
                          IF InBounds(req, ExportSize)
                          THEN [k \in 1..ExportSize |->
                                  IF index(req.offset) < k
                                     /\ k <= index(req.offset) + Len(t.buffer)
                                  THEN [byte |-> t.buffer[k - index(req.offset)], conn |-> i]
                                  ELSE nbd_shadow[k]]
                          ELSE nbd_shadow
                     /\ nbd_last' = None
                ELSE /\ nbd_tasks' = [nbd_tasks EXCEPT ![i] = Returned(t, "returned_err", "error")]
                     /\ nbd_mutex' = 0
                     /\ nbd_last' = Last(i, "request", t, "error")
                     /\ UNCHANGED nbd_shadow
    /\ UNCHANGED <<nbd_acceptor, nbd_streams>>
    /\ UNCHANGED nbd_sent
    /\ UNCHANGED nbd_others

\* NBD_CMD_WRITE: Export::write returns and the guard is dropped at the end
\* of the statement; an error is returned by `?`
NbdExportWrite ==
    /\ \E i \in Conns :
         LET t == nbd_tasks[i]
             req == t.request[1]
             w == InMemoryExport_write(nbd_export, req.offset, t.buffer)
         IN  /\ t.pc = "write_export"
             /\ nbd_mutex' = 0
             /\ nbd_in_export' = nbd_in_export \ {i}
             /\ nbd_export' = w.data
             /\ IF w.result.ok
                THEN /\ nbd_tasks' = [nbd_tasks EXCEPT ![i].pc = "write_reply"]
                     /\ nbd_shadow' =
                          IF InBounds(req, ExportSize)
                          THEN [k \in 1..ExportSize |->
                                  IF index(req.offset) < k
                                     /\ k <= index(req.offset) + Len(t.buffer)
                                  THEN [byte |-> t.buffer[k - index(req.offset)], conn |-> i]
                                  ELSE nbd_shadow[k]]
                          ELSE nbd_shadow
                     /\ nbd_last' = None
                ELSE /\ nbd_tasks' = [nbd_tasks EXCEPT ![i] = Returned(t, "returned_err", "error")]
                     /\ nbd_last' = Last(i, "request", t, "error")
                     /\ UNCHANGED nbd_shadow
    /\ UNCHANGED <<nbd_acceptor, nbd_streams>>
    /\ UNCHANGED nbd_sent
    /\ UNCHANGED nbd_others

\* Response::new(request.handle, ..).write_to(stream): NBD_SUCCESS after a
\* READ or a WRITE, NBD_EINVAL for any other command
NbdReply ==
    /\ \E i \in Conns :
         LET t == nbd_tasks[i]
             error == IF t.pc = "einval_reply" THEN NBD_EINVAL ELSE NBD_SUCCESS
             sent == [t EXCEPT !.replies = Append(t.replies,
                         Response_write_to(Response_new(t.request[1].handle, error)))]
         IN  /\ t.pc \in {"read_reply", "write_reply", "einval_reply"}
             /\ IF t.pc = "read_reply"
                THEN /\ nbd_tasks' = [nbd_tasks EXCEPT ![i] = [sent EXCEPT !.pc = "read_data"]]
                     /\ nbd_last' = None
                ELSE /\ nbd_tasks' = [nbd_tasks EXCEPT ![i] =
                            [NextRequest(sent) EXCEPT
                                !.after_einval = (t.pc = "einval_reply")]]
                     /\ nbd_last' = Last(i, "request", sent, "served")
    /\ UNCHANGED <<nbd_acceptor, nbd_export, nbd_mutex, nbd_streams, nbd_in_export,
                   nbd_shadow>>
    /\ UNCHANGED nbd_sent
    /\ UNCHANGED nbd_others

\* NBD_CMD_READ: stream.write_all(&data)
NbdReplyData ==
    /\ \E i \in Conns :
         LET t == nbd_tasks[i]
             sent == [t EXCEPT !.replies = Append(t.replies, t.data)]
         IN  /\ t.pc = "read_data"
             /\ nbd_tasks' = [nbd_tasks EXCEPT ![i] =
                    [NextRequest(sent) EXCEPT !.after_einval = FALSE]]
             /\ nbd_last' = Last(i, "request", sent, "served")
    /\ UNCHANGED <<nbd_acceptor, nbd_export, nbd_mutex, nbd_streams, nbd_in_export,
                   nbd_shadow>>
    /\ UNCHANGED nbd_sent
    /\ UNCHANGED nbd_others

\* a read or a write on the socket fails with an error other than
\* UnexpectedEof, which `?` returns from handle_client
NbdSocketError ==
    /\ \E i \in Conns :
         LET t == nbd_tasks[i]
         IN  /\ t.pc \in SocketPcs
             /\ nbd_tasks' = [nbd_tasks EXCEPT ![i] = Returned(t, "returned_err", "socket_error")]
             /\ nbd_last' = Last(i, IF t.request = None THEN "socket" ELSE "request",
                                 t, "socket_error")
    /\ UNCHANGED <<nbd_acceptor, nbd_export, nbd_mutex, nbd_streams, nbd_in_export,
                   nbd_shadow>>
    /\ UNCHANGED nbd_sent
    /\ UNCHANGED nbd_others

\* a client sends its next request.  The server sees the bytes only when
\* its task reads the next request, so they are sent at that moment, or
\* after the task has returned.
NbdClientSend ==
    /\ nbd_sent < MaxRequests
    /\ \E i \in Conns :
         LET s == nbd_streams[i]
         IN  /\ nbd_tasks[i].pc \in {"request"} \cup ReturnedPcs
             /\ s.inbuf = <<>>
             /\ ~s.in_closed
             /\ \E bytes \in ClientSends(i, nbd_sent + 1) :
                  nbd_streams' = [nbd_streams EXCEPT ![i].inbuf = bytes]
    /\ nbd_sent' = nbd_sent + 1
    /\ UNCHANGED <<nbd_acceptor, nbd_export, nbd_mutex, nbd_tasks, nbd_in_export,
                   nbd_shadow>>
    /\ nbd_last' = None
    /\ UNCHANGED nbd_others

\* a client closes its connection.  The server sees the end of the stream
\* only when its task waits for bytes that have not been sent.
NbdClientClose ==
    /\ \E i \in Conns :
         /\ \/ nbd_tasks[i].pc = "request" /\ Len(nbd_streams[i].inbuf) < REQUEST_SIZE
            \/ /\ nbd_tasks[i].pc = "write_body"
               /\ ~less_eq(as_u64(nbd_tasks[i].request[1].length),
                           usize(Len(nbd_streams[i].inbuf)))
         /\ ~nbd_streams[i].in_closed
         /\ nbd_streams' = [nbd_streams EXCEPT ![i].in_closed = TRUE]
    /\ UNCHANGED <<nbd_acceptor, nbd_export, nbd_mutex, nbd_tasks, nbd_in_export,
                   nbd_shadow>>
    /\ nbd_last' = None
    /\ UNCHANGED nbd_sent
    /\ UNCHANGED nbd_others

NbdNext ==
    \/ NbdAccept
    \/ NbdAcceptFails
    \/ NbdExportSize
    \/ NbdHandshake
    \/ NbdRequest
    \/ NbdWriteBody
    \/ NbdExportLock
    \/ NbdExportRead
    \/ NbdExportWrite
    \/ NbdReply
    \/ NbdReplyData
    \/ NbdSocketError
    \/ NbdClientSend
    \/ NbdClientClose

NbdSpec == NbdInit /\ [][NbdNext]_vars

\* ------------------------------------------------------------------------
\* Properties of the NBD server
\* ------------------------------------------------------------------------
\* a task has just finished a request with command `command`
JustFinished(command) ==
    /\ nbd_last # None
    /\ nbd_last[1].kind = "request"
    /\ nbd_last[1].request # None
    /\ nbd_last[1].request[1].command = command

LastRequest == nbd_last[1].request[1]

\* the 16-byte reply header `chunk` carries `handle`
CarriesHandle(chunk, handle) ==
    /\ Len(chunk) = 16
    /\ Slice(chunk, 0, 4) = Reverse(u32_to_le_bytes(NBD_RESPONSE_MAGIC))
    /\ Slice(chunk, 8, 16) = Reverse(handle)

\* C14: NBD READ/WRITE round-trip.  The export always holds, byte for byte,
\* what the last successful WRITE to each byte stored (zero before any); a
\* READ or WRITE of a range inside the export does not fail in the export;
\* and a READ of such a range is answered with a success header followed by
\* exactly the bytes the successful WRITEs had left in the range when the
\* READ ran, whichever session wrote them.
C14_NbdReadWriteRoundTrip ==
    /\ Len(nbd_export) = ExportSize
    /\ \A k \in 1..ExportSize : nbd_export[k] = nbd_shadow[k].byte
    /\ \A command \in {NBD_CMD_READ, NBD_CMD_WRITE} :
         (JustFinished(command) /\ InBounds(LastRequest, ExportSize)
            /\ nbd_last[1].export_used)
         => nbd_last[1].outcome # "error"
    /\ (JustFinished(NBD_CMD_READ) /\ InBounds(LastRequest, ExportSize)
          /\ nbd_last[1].outcome = "served")
       => /\ Len(nbd_last[1].replies) = 2
          /\ CarriesHandle(nbd_last[1].replies[1], LastRequest.handle)
          /\ Slice(nbd_last[1].replies[1], 4, 8) = <<0, 0, 0, 0>>
          /\ nbd_last[1].replies[2] = nbd_last[1].expected[1]
          /\ Len(nbd_last[1].replies[2]) = index(as_u64(LastRequest.length))

\* connection 2 reads the whole export and receives the payload connection
\* 1 wrote before it returned
C14_Witness ==
    /\ JustFinished(NBD_CMD_READ)
    /\ nbd_last[1].conn = 2
    /\ nbd_last[1].outcome = "served"
    /\ 1 \in nbd_last[1].began_after
    /\ nbd_last[1].replies[2] = ClientPayload(1, ExportSize)

\* C15: NBD out-of-bounds.  Every READ or WRITE whose range ends past the
\* export (also when offset + length overflows), handled without a socket
\* error, is answered with a 16-byte reply header that carries the request's
\* handle and a non-zero error.
C15_NbdOutOfBounds ==
    \A command \in {NBD_CMD_READ, NBD_CMD_WRITE} :
      (JustFinished(command) /\ ~InBounds(LastRequest, ExportSize)
         /\ nbd_last[1].export_used /\ nbd_last[1].outcome # "socket_error")
      => /\ Len(nbd_last[1].replies) >= 1
         /\ CarriesHandle(nbd_last[1].replies[1], LastRequest.handle)
         /\ Slice(nbd_last[1].replies[1], 4, 8) # <<0, 0, 0, 0>>

\* the tasks positioned inside Export::read or Export::write
InExportCall == {i \in Conns : nbd_tasks[i].pc \in {"read_export", "write_export"}}

\* C16: NBD mutual exclusion.  At most one task is inside Export::read or
\* Export::write at any time, and a task inside one holds the export mutex
\* from before the call until after it.
C16_NbdMutualExclusion ==
    /\ Cardinality(nbd_in_export) <= 1
    /\ Cardinality(InExportCall) <= 1
    /\ nbd_in_export = InExportCall
    /\ \A i \in nbd_in_export : nbd_mutex = i

\* a task is inside an export operation while another waits for the mutex
C16_Witness ==
    \E i, j \in Conns :
        /\ i # j
        /\ i \in nbd_in_export
        /\ nbd_tasks[i].pc = "write_export"
        /\ nbd_tasks[j].pc \in {"read_lock", "write_lock"}

\* C17: NBD error isolation.  A step in which a session returns with an
\* error changes no other session and not the acceptor, and does not leave
\* the export mutex with the returned task; the mutex is only ever held by a
\* task inside an export operation, so no returned session blocks another;
\* and the acceptor stops accepting only by a step that is no session's
\* (accept() itself failing).
C17_NbdErrorIsolation ==
    [][/\ \A i \in Conns :
            (nbd_tasks[i].pc \notin ReturnedPcs /\ nbd_tasks'[i].pc = "returned_err")
            => /\ \A j \in Conns \ {i} :
                    nbd_tasks'[j] = nbd_tasks[j] /\ nbd_streams'[j] = nbd_streams[j]
               /\ nbd_acceptor' = nbd_acceptor
               /\ nbd_mutex' # i
       /\ nbd_mutex' # 0 => nbd_tasks'[nbd_mutex'].pc \in {"read_export", "write_export"}
       /\ nbd_acceptor' # nbd_acceptor => nbd_tasks' = nbd_tasks
      ]_vars

\* after connection 1 returned with an error, connection 2 was accepted and
\* one of its READs has been served, and the acceptor is still accepting
C17_Witness ==
    /\ JustFinished(NBD_CMD_READ)
    /\ nbd_last[1].conn = 2
    /\ nbd_last[1].outcome = "served"
    /\ nbd_tasks[1].pc = "returned_err"
    /\ 1 \in nbd_tasks[2].accepted_after
    /\ nbd_acceptor = "accepting"

\* the task of connection i is about to read a request whose first four
\* bytes are not the request magic
BadMagicNext(i) ==
    /\ nbd_tasks[i].pc = "request"
    /\ Len(nbd_streams[i].inbuf) >= REQUEST_SIZE
    /\ Slice(nbd_streams[i].inbuf, 0, 4) # Reverse(u32_to_le_bytes(NBD_REQUEST_MAGIC))

\* C18: NBD bad magic.  When a task reads a 28-byte request whose first four
\* bytes differ from 0x25609513, it returns with an error in that step with
\* no reply written and the export neither locked nor changed; and a task
\* that has returned takes no further step, so no later request on the
\* connection is processed.
C18_NbdBadMagic ==
    [][/\ \A i \in Conns :
            (BadMagicNext(i) /\ nbd_tasks'[i] # nbd_tasks[i])
            => /\ nbd_tasks'[i].pc = "returned_err"
               /\ nbd_last' # None
               /\ nbd_last'[1].conn = i
               /\ nbd_last'[1].replies = <<>>
               /\ ~nbd_last'[1].export_used
               /\ nbd_export' = nbd_export
               /\ nbd_mutex' = nbd_mutex
       /\ \A i \in Conns :
            nbd_tasks[i].pc \in ReturnedPcs => nbd_tasks'[i] = nbd_tasks[i]
      ]_vars

\* a session has ended on a bad magic and a request sent after it lies
\* unread on the connection
C18_Witness ==
    \E i \in Conns :
        /\ nbd_tasks[i].pc = "returned_err"
        /\ nbd_tasks[i].ended = "bad_magic"
        /\ Len(nbd_streams[i].inbuf) >= REQUEST_SIZE

\* the task of connection i is about to read a well-formed request whose
\* command is not READ, WRITE or DISCONNECT
UnknownCommandNext(i) ==
    /\ nbd_tasks[i].pc = "request"
    /\ Len(nbd_streams[i].inbuf) >= REQUEST_SIZE
    /\ Slice(nbd_streams[i].inbuf, 0, 4) = Reverse(u32_to_le_bytes(NBD_REQUEST_MAGIC))
    /\ 256 * nbd_streams[i].inbuf[5] + nbd_streams[i].inbuf[6]
          \notin {NBD_CMD_READ, NBD_CMD_WRITE, NBD_CMD_DISC}

\* C19: NBD unknown command.  A request whose command is not READ, WRITE or
\* DISCONNECT, once read, takes the task to the EINVAL reply without
\* touching the export; the reply step, unless the socket fails, writes one
\* 16-byte header with error 1 and the request's handle, leaves the export
\* unchanged and puts the task back at reading the next request.
C19_NbdUnknownCommand ==
    [][\A i \in Conns :
         /\ (UnknownCommandNext(i) /\ nbd_tasks'[i] # nbd_tasks[i])
            => /\ \/ nbd_tasks'[i].pc = "einval_reply"
                  \/ nbd_last' # None /\ nbd_last'[1].outcome = "socket_error"
               /\ nbd_export' = nbd_export
               /\ nbd_mutex' = nbd_mutex
         /\ (nbd_tasks[i].pc = "einval_reply" /\ nbd_tasks'[i] # nbd_tasks[i])
            => /\ nbd_export' = nbd_export
               /\ nbd_mutex' = nbd_mutex
               /\ nbd_last' # None
               /\ \/ nbd_last'[1].outcome = "socket_error"
                  \/ /\ nbd_tasks'[i].pc = "request"
                     /\ Len(nbd_last'[1].replies) = 1
                     /\ CarriesHandle(nbd_last'[1].replies[1],
                                      nbd_tasks[i].request[1].handle)
                     /\ Slice(nbd_last'[1].replies[1], 4, 8) = <<0, 0, 0, NBD_EINVAL>>
                     /\ ~nbd_last'[1].export_used
      ]_vars

\* the request after one with an unknown command, on the same connection,
\* has been served
C19_Witness ==
    /\ JustFinished(NBD_CMD_READ)
    /\ nbd_last[1].outcome = "served"
    /\ nbd_last[1].after_einval
    /\ Len(nbd_last[1].replies) = 2

\* ========================================================================
\* Part 5: the HTTP health-check client
\*         (src/packages/runner/src/http_health_check_client.rs over
\*          src/packages/runner/src/http_client.rs)
\* ========================================================================
\* Text is a sequence of one-character strings (ASCII only, so that
\* String::from_utf8_lossy changes nothing).

\* the longest buffer of a connection the runs of the model build
MaxBufferLen == 13
\* the largest max_retries a client is created with
MaxRetries == 2

\* the peer ports the callbacks are called for
HcPorts == {8080}

CRLF == <<"\r", "\n">>

Whitespace == {" ", "\t", "\r", "\n"}

Digits == {"0", "1", "2", "3", "4", "5", "6", "7", "8", "9"}

DigitValue(c) ==
    CASE c = "0" -> 0 [] c = "1" -> 1 [] c = "2" -> 2 [] c = "3" -> 3
      [] c = "4" -> 4 [] c = "5" -> 5 [] c = "6" -> 6 [] c = "7" -> 7
      [] c = "8" -> 8 [] c = "9" -> 9

\* the positions at which pat occurs in text
Occurrences(text, pat) ==
    {i \in 1..(Len(text) - Len(pat) + 1) : SubSeq(text, i, i + Len(pat) - 1) = pat}

\* str::contains
contains(text, pat) == Occurrences(text, pat) # {}

Min(S) == CHOOSE x \in S : \A y \in S : x <= y

\* str::lines().next(): the text before the first "\n", without the "\r"
\* that may precede it; None for the empty text
first_line(text) ==
    IF text = <<>> THEN None
    ELSE LET newlines == {i \in 1..Len(text) : text[i] = "\n"}
             line == IF newlines = {} THEN text
                     ELSE SubSeq(text, 1, Min(newlines) - 1)
         IN  IF newlines # {} /\ line # <<>> /\ line[Len(line)] = "\r"
             THEN Some(SubSeq(line, 1, Len(line) - 1))
             ELSE Some(line)

\* str::split_whitespace: the maximal runs of characters outside Whitespace
RECURSIVE split_whitespace(_)
split_whitespace(text) ==
    IF text = <<>> THEN <<>>
    ELSE IF text[1] \in Whitespace THEN split_whitespace(Tail(text))
    ELSE LET stops == {i \in 1..Len(text) : text[i] \in Whitespace}
             n == IF stops = {} THEN Len(text) ELSE Min(stops) - 1
         IN  <<SubSeq(text, 1, n)>> \o split_whitespace(SubSeq(text, n + 1, Len(text)))

RECURSIVE decimal(_)
decimal(digits) ==
    IF digits = <<>> THEN 0
    ELSE 10 * decimal(SubSeq(digits, 1, Len(digits) - 1)) + DigitValue(digits[Len(digits)])

\* str::parse::<u16>().ok(): an optional "+", then digits, at most 65535
parse_u16(text) ==
    LET digits == IF text # <<>> /\ text[1] = "+" THEN Tail(text) ELSE text
    IN  IF digits = <<>> \/ Len(digits) > 5 \/ \E i \in 1..Len(digits) : digits[i] \notin Digits
        THEN None
        ELSE IF decimal(digits) > 65535 THEN None
        ELSE Some(decimal(digits))

\* response_str.split("\r\n\r\n").nth(1).unwrap_or("")
second_part(text) ==
    LET seps == Occurrences(text, CRLF \o CRLF)
    IN  IF seps = {} THEN <<>>
        ELSE LET rest == SubSeq(text, Min(seps) + 4, Len(text))
                 more == Occurrences(rest, CRLF \o CRLF)
             IN  IF more = {} THEN rest ELSE SubSeq(rest, 1, Min(more) - 1)

\* HttpClient::parse_http_response: Option<(u16, String)>
parse_http_response(bytes) ==
    LET line == first_line(bytes)
    IN  IF line = None THEN None
        ELSE LET parts == split_whitespace(line[1])
             IN  IF Len(parts) < 3 THEN None
                 ELSE IF parse_u16(parts[2]) = None THEN None
                 ELSE Some([status_code |-> parse_u16(parts[2])[1],
                            body |-> second_part(bytes)])

\* HttpClient::create_http_request("GET", "/health", host)
GET_health == <<"G", "E", "T", " ", "/", "h", "e", "a", "l", "t", "h", " ",
                "H", "T", "T", "P", "/", "1", ".", "1">> \o CRLF
               \o <<"H", "o", "s", "t", ":", " ">>

Connection_close == CRLF \o <<"C", "o", "n", "n", "e", "c", "t", "i", "o", "n", ":",
                              " ", "c", "l", "o", "s", "e">> \o CRLF \o CRLF

create_http_request(host) == GET_health \o host \o Connection_close

\* the host add_http_health_check_client passes
localhost_8080 == <<"l", "o", "c", "a", "l", "h", "o", "s", "t", ":", "8", "0", "8", "0">>

HttpClientConnection_new(port) ==
    [port |-> port, buffer |-> <<>>, response_complete |-> FALSE]

HttpClient_new(port) ==
    [port |-> port, connections |-> {}, pending_requests |-> {}, responses |-> {}]

HttpClient_make_request(c, connection_port, host) ==
    [c EXCEPT !.pending_requests =
        HashMapInsert(@, connection_port, create_http_request(host))]

HttpClient_on_connect_success(c, port) ==
    [c EXCEPT !.connections = HashMapInsert(@, port, HttpClientConnection_new(port))]

HttpClient_on_connect_failed(c, port) ==
    [c EXCEPT !.pending_requests = HashMapRemove(@, port)]

HttpClient_on_data(c, port, data) ==
    IF HashMapGet(c.connections, port) = {} THEN c
    ELSE LET connection == CHOOSE v \in HashMapGet(c.connections, port) : TRUE
             buffer == connection.buffer \o data
         IN  IF contains(buffer, CRLF \o CRLF) /\ ~connection.response_complete
             THEN [c EXCEPT
                     !.connections = HashMapInsert(@, port,
                         [connection EXCEPT !.buffer = buffer, !.response_complete = TRUE]),
                     !.responses = HashMapInsert(@, port, buffer)]
             ELSE [c EXCEPT
                     !.connections = HashMapInsert(@, port,
                         [connection EXCEPT !.buffer = buffer])]

\* HttpClient::on_reset and HttpClient::on_shutdown have the same body
HttpClient_on_reset(c, port) ==
    [c EXCEPT !.connections = HashMapRemove(@, port),
              !.pending_requests = HashMapRemove(@, port),
              !.responses = HashMapRemove(@, port)]

\* (mutant) the request stays in pending_requests
HttpClient_get_write_data_keeps(c, port) ==
    [client |-> c,
     result |-> IF HashMapGet(c.pending_requests, port) = {} THEN None
                ELSE Some(CHOOSE v \in HashMapGet(c.pending_requests, port) : TRUE)]

\* the client after the call and the Option<Vec<u8>> returned
HttpClient_get_write_data(c, port) ==
    [client |-> [c EXCEPT !.pending_requests = HashMapRemove(@, port)],
     result |-> IF HashMapGet(c.pending_requests, port) = {} THEN None
                ELSE Some(CHOOSE v \in HashMapGet(c.pending_requests, port) : TRUE)]

HttpHealthCheckClient_new(port, max_retries, target_host) ==
    [http_client |-> HttpClient_new(port), health_check_retries |-> 0,
     max_retries |-> max_retries, target_host |-> target_host]

HttpHealthCheckClient_start_health_check(h, connection_port) ==
    [h EXCEPT !.health_check_retries = 0,
              !.http_client = HttpClient_make_request(@, connection_port, h.target_host)]

HttpHealthCheckClient_on_connect_success(h, port) ==
    HttpHealthCheckClient_start_health_check(
        [h EXCEPT !.http_client = HttpClient_on_connect_success(@, port)], port)

HttpHealthCheckClient_on_connect_failed(h, port) ==
    [h EXCEPT !.http_client = HttpClient_on_connect_failed(@, port)]

HttpHealthCheckClient_on_data(h, port, data) ==
    LET h1 == [h EXCEPT !.http_client = HttpClient_on_data(@, port, data)]
        found == HashMapGet(h1.http_client.connections, port)
        connection == CHOOSE v \in found : TRUE
        parsed == parse_http_response(connection.buffer)
    IN  IF found = {} THEN h1
        ELSE IF ~connection.response_complete THEN h1
        ELSE IF parsed = None THEN h1
        ELSE IF parsed[1].status_code = 200 THEN h1
        ELSE IF h1.health_check_retries + 1 < h1.max_retries
             THEN [h1 EXCEPT
                     !.health_check_retries = @ + 1,
                     !.http_client = HttpClient_make_request(
                         [h1.http_client EXCEPT !.connections = HashMapInsert(@, port,
                             [connection EXCEPT !.response_complete = FALSE,
                                                !.buffer = <<>>])],
                         port, h1.target_host)]
             ELSE [h1 EXCEPT !.health_check_retries = @ + 1]

\* HttpHealthCheckClient::on_reset and ::on_shutdown delegate to HttpClient
HttpHealthCheckClient_on_reset(h, port) ==
    [h EXCEPT !.http_client = HttpClient_on_reset(@, port)]

HttpHealthCheckClient_get_write_data(h, port) ==
    [client |-> [h EXCEPT !.http_client = HttpClient_get_write_data(@, port).client],
     result |-> HttpClient_get_write_data(h.http_client, port).result]

HttpHealthCheckClient_should_shutdown(h, port) ==
    LET found == HashMapGet(h.http_client.connections, port)
        connection == CHOOSE v \in found : TRUE
        parsed == parse_http_response(connection.buffer)
    IN  IF found = {} THEN FALSE
        ELSE IF ~connection.response_complete THEN FALSE
        ELSE IF parsed = None THEN FALSE
        ELSE parsed[1].status_code = 200 \/ h.health_check_retries >= h.max_retries

\* ---- the runner side (the environment): what on_data may deliver
\* "H" stands for the HTTP version, "O" and "E" for reason phrases
HcChunks ==
    {<<"H", " ", "2", "0", "0", " ", "O">> \o CRLF \o CRLF,
     <<"H", " ", "5", "0", "0", " ", "E">> \o CRLF \o CRLF,
     <<"H", " ", "2", "0", "0", " ">> \o CRLF \o CRLF,
     <<"H", " ", "5", "0", "0", " ">> \o CRLF \o CRLF,
     <<"H", " ", "2">>,
     <<"0", "0", " ", "O">> \o CRLF,
     CRLF}

\* the buffer of the connection to port, <<>> without one
HcBuffer(h, port) ==
    IF HashMapGet(h.http_client.connections, port) = {} THEN <<>>
    ELSE (CHOOSE v \in HashMapGet(h.http_client.connections, port) : TRUE).buffer

HcInit ==
    /\ runner_idle /\ codec_idle /\ yield_idle /\ nbd_idle /\ ext_idle
    /\ \E max_retries \in 1..MaxRetries :
         hc_client = Some(HttpHealthCheckClient_new(9000, max_retries, localhost_8080))
    /\ hc_last = None

hc_others == <<runner_vars, codec_vars, yield_vars, nbd_vars, ext_vars>>

HcCalled(callback, port, result) ==
    Some([callback |-> callback, port |-> port, result |-> result])

HcOnConnectSuccess ==
    /\ \E port \in HcPorts :
         /\ hc_client' = Some(HttpHealthCheckClient_on_connect_success(hc_client[1], port))
         /\ hc_last' = HcCalled("on_connect_success", port, None)
    /\ UNCHANGED hc_others

HcOnConnectFailed ==
    /\ \E port \in HcPorts :
         /\ hc_client' = Some(HttpHealthCheckClient_on_connect_failed(hc_client[1], port))
         /\ hc_last' = HcCalled("on_connect_failed", port, None)
    /\ UNCHANGED hc_others

HcOnData ==
    /\ \E port \in HcPorts, data \in HcChunks :
         /\ Len(HcBuffer(hc_client[1], port)) + Len(data) <= MaxBufferLen
         /\ hc_client' = Some(HttpHealthCheckClient_on_data(hc_client[1], port, data))
         /\ hc_last' = HcCalled("on_data", port, None)
    /\ UNCHANGED hc_others

HcOnReset ==
    /\ \E port \in HcPorts :
         /\ hc_client' = Some(HttpHealthCheckClient_on_reset(hc_client[1], port))
         /\ hc_last' = HcCalled("on_reset", port, None)
    /\ UNCHANGED hc_others

HcOnShutdown ==
    /\ \E port \in HcPorts :
         /\ hc_client' = Some(HttpHealthCheckClient_on_reset(hc_client[1], port))
         /\ hc_last' = HcCalled("on_shutdown", port, None)
    /\ UNCHANGED hc_others

HcGetWriteData ==
    /\ \E port \in HcPorts :
         /\ hc_client' = Some(HttpHealthCheckClient_get_write_data(hc_client[1], port).client)
         /\ hc_last' = HcCalled("get_write_data", port,
                                HttpHealthCheckClient_get_write_data(hc_client[1], port).result)
    /\ UNCHANGED hc_others

HcShouldShutdown ==
    /\ \E port \in HcPorts :
         /\ hc_last' = HcCalled("should_shutdown", port,
                                Some(HttpHealthCheckClient_should_shutdown(hc_client[1], port)))
    /\ UNCHANGED hc_client
    /\ UNCHANGED hc_others

HcNext ==
    \/ HcOnConnectSuccess
    \/ HcOnConnectFailed
    \/ HcOnData
    \/ HcOnReset
    \/ HcOnShutdown
    \/ HcGetWriteData
    \/ HcShouldShutdown

HcSpec == HcInit /\ [][HcNext]_vars

\* ------------------------------------------------------------------------
\* Properties of the health-check client
\* ------------------------------------------------------------------------
\* text is a complete response (it contains the blank line) whose status
\* line is `version SP 200 SP reason-phrase`, the reason phrase possibly
\* empty
IsComplete200(text) ==
    /\ contains(text, CRLF \o CRLF)
    /\ \E i \in 2..Len(text) :
         /\ \A k \in 1..(i - 1) : text[k] \notin Whitespace
         /\ Len(text) >= i + 4
         /\ SubSeq(text, i, i + 4) = <<" ", "2", "0", "0", " ">>

\* C20: health-check success.  While the connection of on_connect_success(p)
\* lasts, once the bytes on_data(p, ..) has delivered form a complete
\* response with status 200, should_shutdown(p) is true, also after further
\* on_data calls.
C20_HealthCheckSuccess ==
    \A port \in HcPorts :
        (/\ HashMapGet(hc_client[1].http_client.connections, port) # {}
         /\ IsComplete200(HcBuffer(hc_client[1], port)))
        => HttpHealthCheckClient_should_shutdown(hc_client[1], port)

\* text is a complete response (it contains the blank line) whose status
\* line is `version SP 3DIGIT SP reason-phrase` with a code other than 200
IsCompleteNon200(text) ==
    /\ contains(text, CRLF \o CRLF)
    /\ \E i \in 2..Len(text) :
         /\ \A k \in 1..(i - 1) : text[k] \notin Whitespace
         /\ Len(text) >= i + 4
         /\ text[i] = " " /\ text[i + 4] = " "
         /\ \A k \in (i + 1)..(i + 3) : text[k] \in Digits
         /\ SubSeq(text, i + 1, i + 3) # <<"2", "0", "0">>

\* C21: health-check retry budget.  When the bytes on_data(p, ..) has
\* delivered since the last staged request form a complete response with a
\* status other than 200, the client has either cleared the buffer and
\* staged a retry, or should_shutdown(p) is true: it never rests on a failed
\* answer without retrying or giving up.
C21_HealthCheckRetryBudget ==
    \A port \in HcPorts :
        (/\ HashMapGet(hc_client[1].http_client.connections, port) # {}
         /\ IsCompleteNon200(HcBuffer(hc_client[1], port)))
        => HttpHealthCheckClient_should_shutdown(hc_client[1], port)

\* ========================================================================
\* Part 6: the HTTP echo server (src/packages/runner/src/http_server.rs)
\* ========================================================================

\* the most bytes on_data is given on one connection in the runs of the model
MaxDelivered == 19

\* the peer ports the callbacks are called for
HsPorts == {1234}

\* the three response literals of handle_http_request
RESPONSE_ROOT ==
    <<"H", "T", "T", "P", "/", "1", ".", "1", " ", "2", "0", "0", " ", "O", "K", "\r",
      "\n", "C", "o", "n", "t", "e", "n", "t", "-", "T", "y", "p", "e", ":", " ", "t",
      "e", "x", "t", "/", "h", "t", "m", "l", "\r", "\n", "C", "o", "n", "t", "e", "n",
      "t", "-", "L", "e", "n", "g", "t", "h", ":", " ", "2", "5", "\r", "\n", "\r", "\n",
      "<", "h", "1", ">", "H", "e", "l", "l", "o", " ", "W", "o", "r", "l", "d", "!",
      "<", "/", "h", "1", ">">>

RESPONSE_HEALTH ==
    <<"H", "T", "T", "P", "/", "1", ".", "1", " ", "2", "0", "0", " ", "O", "K", "\r",
      "\n", "C", "o", "n", "t", "e", "n", "t", "-", "T", "y", "p", "e", ":", " ", "a",
      "p", "p", "l", "i", "c", "a", "t", "i", "o", "n", "/", "j", "s", "o", "n", "\r",
      "\n", "C", "o", "n", "t", "e", "n", "t", "-", "L", "e", "n", "g", "t", "h", ":",
      " ", "1", "7", "\r", "\n", "\r", "\n", "{", "\"", "s", "t", "a", "t", "u", "s",
      "\"", ":", "\"", "o", "k", "\"", "}">>

RESPONSE_NOT_FOUND ==
    <<"H", "T", "T", "P", "/", "1", ".", "1", " ", "4", "0", "4", " ", "N", "o", "t",
      " ", "F", "o", "u", "n", "d", "\r", "\n", "C", "o", "n", "t", "e", "n", "t", "-",
      "T", "y", "p", "e", ":", " ", "t", "e", "x", "t", "/", "p", "l", "a", "i", "n",
      "\r", "\n", "C", "o", "n", "t", "e", "n", "t", "-", "L", "e", "n", "g", "t", "h",
      ":", " ", "1", "3", "\r", "\n", "\r", "\n", "4", "0", "4", " ", "N", "o", "t", " ",
      "F", "o", "u", "n", "d">>

HttpConnection_new(port) ==
    [port |-> port, buffer |-> <<>>, request_complete |-> FALSE, response_ready |-> FALSE]

HttpServer_new(port) ==
    [port |-> port, connections |-> {}, pending_responses |-> {}]

\* HttpServer::handle_http_request: Option<Vec<u8>>
handle_http_request(data) ==
    LET line == first_line(data)
    IN  IF line = None THEN None
        ELSE LET parts == split_whitespace(line[1])
             IN  IF Len(parts) < 2 THEN None
                 ELSE IF parts[1] = <<"G", "E", "T">> /\ parts[2] = <<"/">>
                      THEN Some(RESPONSE_ROOT)
                 ELSE IF parts[1] = <<"G", "E", "T">>
                         /\ parts[2] = <<"/", "h", "e", "a", "l", "t", "h">>
                      THEN Some(RESPONSE_HEALTH)
                 ELSE Some(RESPONSE_NOT_FOUND)

HttpServer_on_connection(s, port) ==
    [s EXCEPT !.connections = HashMapInsert(@, port, HttpConnection_new(port))]

HttpServer_on_data(s, port, data) ==
    LET found == HashMapGet(s.connections, port)
        connection == CHOOSE v \in found : TRUE
        should_process == /\ found # {}
                          /\ contains(connection.buffer, CRLF \o CRLF)
                          /\ ~connection.request_complete
        reply == handle_http_request(connection.buffer)
    IN  IF should_process
        THEN [s EXCEPT
                !.connections = HashMapInsert(@, port,
                    [connection EXCEPT !.request_complete = TRUE,
                                       !.response_ready = (reply # None)]),
                !.pending_responses =
                    IF reply = None THEN @ ELSE HashMapInsert(@, port, reply[1])]
        ELSE IF found = {} THEN s
        ELSE [s EXCEPT !.connections = HashMapInsert(@, port,
                    [connection EXCEPT !.buffer = @ \o data])]

\* HttpServer::on_reset and HttpServer::on_shutdown have the same body
HttpServer_on_reset(s, port) ==
    [s EXCEPT !.connections = HashMapRemove(@, port),
              !.pending_responses = HashMapRemove(@, port)]

\* the server after the call and the Option<Vec<u8>> returned
HttpServer_get_write_data(s, port) ==
    [server |-> [s EXCEPT !.pending_responses = HashMapRemove(@, port)],
     result |-> IF HashMapGet(s.pending_responses, port) = {} THEN None
                ELSE Some(CHOOSE v \in HashMapGet(s.pending_responses, port) : TRUE)]

HttpServer_should_shutdown(s, port) == FALSE

\* ---- the runner side (the environment): what on_data may deliver
\* "H" stands for the HTTP version
HsChunks ==
    {<<"G", "E", "T", " ", "/", " ", "H">> \o CRLF \o CRLF,
     <<"G", "E", "T", " ", "/", "h", "e", "a", "l", "t", "h", " ", "H">> \o CRLF \o CRLF,
     <<"G", "E", "T", " ", "/", "x", " ", "H">> \o CRLF \o CRLF,
     <<"G", "E", "T">> \o CRLF \o CRLF,
     <<"G", "E", "T", " ", "/">>,
     <<" ", "H">> \o CRLF,
     CRLF}

NoHistory == [delivered |-> <<>>, taken |-> 0]

HsInit ==
    /\ runner_idle /\ codec_idle /\ yield_idle /\ nbd_idle /\ hc_idle /\ drv_idle /\ ga_idle /\ comp_idle
    /\ hs_server = Some(HttpServer_new(8080))
    /\ hs_last = None
    /\ hs_history = Some([port \in HsPorts |-> NoHistory])

hs_others == <<runner_vars, codec_vars, yield_vars, nbd_vars, hc_vars, drv_vars, ga_vars,
              comp_vars>>

HsCalled(callback, port, result) ==
    Some([callback |-> callback, port |-> port, result |-> result])

HsOnConnection ==
    /\ \E port \in HsPorts :
         /\ hs_server' = Some(HttpServer_on_connection(hs_server[1], port))
         /\ hs_last' = HsCalled("on_connection", port, None)
         /\ hs_history' = Some([hs_history[1] EXCEPT ![port] = NoHistory])
    /\ UNCHANGED hs_others

HsOnData ==
    /\ \E port \in HsPorts, data \in HsChunks :
         /\ HashMapGet(hs_server[1].connections, port) # {}
         /\ Len(hs_history[1][port].delivered) + Len(data) <= MaxDelivered
         /\ hs_server' = Some(HttpServer_on_data(hs_server[1], port, data))
         /\ hs_last' = HsCalled("on_data", port, None)
         /\ hs_history' = Some([hs_history[1] EXCEPT ![port].delivered = @ \o data])
    /\ UNCHANGED hs_others

HsOnReset ==
    /\ \E port \in HsPorts :
         /\ hs_server' = Some(HttpServer_on_reset(hs_server[1], port))
         /\ hs_last' = HsCalled("on_reset", port, None)
         /\ hs_history' = Some([hs_history[1] EXCEPT ![port] = NoHistory])
    /\ UNCHANGED hs_others

HsOnShutdown ==
    /\ \E port \in HsPorts :
         /\ hs_server' = Some(HttpServer_on_reset(hs_server[1], port))
         /\ hs_last' = HsCalled("on_shutdown", port, None)
         /\ hs_history' = Some([hs_history[1] EXCEPT ![port] = NoHistory])
    /\ UNCHANGED hs_others

HsGetWriteData ==
    /\ \E port \in HsPorts :
         LET called == HttpServer_get_write_data(hs_server[1], port)
         IN  /\ hs_server' = Some(called.server)
             /\ hs_last' = HsCalled("get_write_data", port, called.result)
             /\ hs_history' = Some([hs_history[1] EXCEPT ![port].taken =
                                       IF called.result = None THEN @ ELSE 1])
    /\ UNCHANGED hs_others

HsShouldShutdown ==
    /\ \E port \in HsPorts :
         hs_last' = HsCalled("should_shutdown", port,
                             Some(HttpServer_should_shutdown(hs_server[1], port)))
    /\ UNCHANGED <<hs_server, hs_history>>
    /\ UNCHANGED hs_others

HsNext ==
    \/ HsOnConnection
    \/ HsOnData
    \/ HsOnReset
    \/ HsOnShutdown
    \/ HsGetWriteData
    \/ HsShouldShutdown

HsSpec == HsInit /\ [][HsNext]_vars

\* ------------------------------------------------------------------------
\* Properties of the HTTP echo server
\* ------------------------------------------------------------------------
\* C22: HTTP echo server.  When get_write_data(p) has just been called on a
\* connection whose on_data calls have delivered bytes containing the blank
\* line, a response has been returned for the connection (by this call or
\* an earlier one), and what this call returned, if anything, is the fixed
\* response for the delivered request.
C22_HttpEchoServer ==
    \A port \in HsPorts :
        (/\ hs_last # None
         /\ hs_last[1].callback = "get_write_data"
         /\ hs_last[1].port = port
         /\ HashMapGet(hs_server[1].connections, port) # {}
         /\ contains(hs_history[1][port].delivered, CRLF \o CRLF))
        => /\ hs_history[1][port].taken = 1
           /\ hs_last[1].result \in {None, handle_http_request(hs_history[1][port].delivered)}

\* ========================================================================
\* Part 7: the CMIO driver
\*         (src/packages/guest-agent/crates/cmio/src/driver.rs, the device
\*          build, and src/packages/guest-agent/crates/cmio/src/mock.rs)
\* ========================================================================

HTIF_DEVICE_YIELD == 2
HTIF_YIELD_CMD_MANUAL == 1

\* the size of the mock's two buffers
MOCK_BUF_SIZE == 4096

\* the longest TX and RX mappings the setup ioctl describes
MaxTxLen == 2
MaxRxLen == 2
\* the most yields of one driver
MaxYields == 2

InvalidArgument == [kind |-> "InvalidArgument", errno |-> ""]

\* CmioError::IoError(std::io::Error::last_os_error())
IoError(errno) == [kind |-> "IoError", errno |-> errno]

\* what errno may be after a failing open, ioctl or mmap, and after close
\* or munmap
Errnos == {"ENOENT", "ENOMEM"}

CleanupErrnos == {"EINTR"}

\* the descriptors open() may return
Fds == {3}

\* close(fd): the descriptor is released whatever close returns; errno is
\* untouched or set by close
close(os, fd, errno) == [os EXCEPT !.open_fds = @ \ {fd}, !.errno = errno]

\* munmap(ptr, len) of the mapping called name
munmap(os, name, errno) == [os EXCEPT !.mapped = @ \ {name}, !.errno = errno]

\* a failing call: errno is set; history: the first error of the run
\* (mapped_ever, also history, is what was ever mapped)
fails(os, errno) ==
    [os EXCEPT !.errno = errno,
               !.first_error = IF @ = None THEN Some(errno) ELSE @]

DrvCalled(call, tx_data, result, reported, os) ==
    Some([call |-> call, tx_data |-> tx_data, result |-> result,
          reported |-> reported, tx_before |-> os.tx, yields_before |-> os.yields])

DrvInit ==
    /\ runner_idle /\ codec_idle /\ yield_idle /\ nbd_idle /\ hc_idle /\ hs_idle /\ ga_idle /\ comp_idle
    /\ drv_pc \in {"open", "mock_new"}
    /\ drv_self = None
    /\ drv_os = Some([open_fds |-> {}, mapped |-> {}, errno |-> "", first_error |-> None, mapped_ever |-> {},
                      setup |-> None, tx |-> <<>>, rx |-> <<>>, yields |-> 0])
    /\ drv_last = None

drv_others == <<runner_vars, codec_vars, yield_vars, nbd_vars, hc_vars, hs_vars, ga_vars,
               comp_vars>>

\* let fd = open("/dev/cmio", O_RDWR); if fd < 0 { return Err(..) }
DrvOpen ==
    /\ drv_pc = "open"
    /\ \/ \E fd \in Fds \ drv_os[1].open_fds :
            /\ drv_os' = Some([drv_os[1] EXCEPT !.open_fds = @ \cup {fd}])
            /\ drv_self' = Some([fd |-> fd])
            /\ drv_pc' = "setup"
            /\ UNCHANGED drv_last
       \/ \E errno \in Errnos :
            /\ drv_os' = Some(fails(drv_os[1], errno))
            /\ drv_last' = DrvCalled("new", <<>>, Err(IoError(errno)), None, drv_os[1])
            /\ drv_pc' = "returned"
            /\ UNCHANGED drv_self
    /\ UNCHANGED drv_others

\* cmio_setup(fd, &mut setup); on error: err = last_os_error(); close(fd)
DrvSetup ==
    /\ drv_pc = "setup"
    /\ \/ \E tx_len \in 1..MaxTxLen, rx_len \in 1..MaxRxLen :
            /\ drv_os' = Some([drv_os[1] EXCEPT
                                 !.setup = Some([tx |-> tx_len, rx |-> rx_len])])
            /\ drv_pc' = "mmap_tx"
            /\ UNCHANGED <<drv_self, drv_last>>
       \/ \E errno \in Errnos : \E after \in {errno} \cup CleanupErrnos :
            /\ drv_os' = Some(close(fails(drv_os[1], errno), drv_self[1].fd, after))
            /\ drv_last' = DrvCalled("new", <<>>, Err(IoError(errno)), None, drv_os[1])
            /\ drv_self' = None
            /\ drv_pc' = "returned"
    /\ UNCHANGED drv_others

\* tx_ptr = mmap(setup.tx ..); on MAP_FAILED: err = last_os_error(); close(fd)
DrvMmapTx ==
    /\ drv_pc = "mmap_tx"
    /\ \/ /\ drv_os' = Some([drv_os[1] EXCEPT !.mapped = @ \cup {"tx"},
                                              !.mapped_ever = @ \cup {"tx"}])
          /\ drv_pc' = "mmap_rx"
          /\ UNCHANGED <<drv_self, drv_last>>
       \/ \E errno \in Errnos : \E after \in {errno} \cup CleanupErrnos :
            /\ drv_os' = Some(close(fails(drv_os[1], errno), drv_self[1].fd, after))
            /\ drv_last' = DrvCalled("new", <<>>, Err(IoError(errno)), None, drv_os[1])
            /\ drv_self' = None
            /\ drv_pc' = "returned"
    /\ UNCHANGED drv_others

\* (mutant) the TX mapping is not unmapped when mapping RX fails
DrvMmapRxKeepsTx ==
    /\ drv_pc = "mmap_rx"
    /\ \/ /\ drv_os' = Some([drv_os[1] EXCEPT
                               !.mapped = @ \cup {"rx"},
                               !.tx = [i \in 1..drv_os[1].setup[1].tx |-> 0],
                               !.rx = [i \in 1..drv_os[1].setup[1].rx |-> 0]])
          /\ drv_self' = Some([fd |-> drv_self[1].fd,
                               tx_len |-> drv_os[1].setup[1].tx,
                               rx_len |-> drv_os[1].setup[1].rx])
          /\ drv_last' = DrvCalled("new", <<>>, Ok("CmioIoDriver"), None, drv_os[1])
          /\ drv_pc' = "ready"
       \/ \E errno \in Errnos : \E after \in {errno} \cup CleanupErrnos :
            /\ drv_os' = Some(close(fails(drv_os[1], errno), drv_self[1].fd, after))
            /\ drv_last' = DrvCalled("new", <<>>, Err(IoError(errno)), None, drv_os[1])
            /\ drv_self' = None
            /\ drv_pc' = "returned"
    /\ UNCHANGED drv_others

\* rx_ptr = mmap(setup.rx ..); on MAP_FAILED: err = last_os_error();
\* munmap(tx_ptr ..); close(fd); otherwise Ok(CmioIoDriver { .. })
DrvMmapRx ==
    /\ drv_pc = "mmap_rx"
    /\ \/ /\ drv_os' = Some([drv_os[1] EXCEPT
                               !.mapped = @ \cup {"rx"},
                               !.tx = [i \in 1..drv_os[1].setup[1].tx |-> 0],
                               !.rx = [i \in 1..drv_os[1].setup[1].rx |-> 0]])
          /\ drv_self' = Some([fd |-> drv_self[1].fd,
                               tx_len |-> drv_os[1].setup[1].tx,
                               rx_len |-> drv_os[1].setup[1].rx])
          /\ drv_last' = DrvCalled("new", <<>>, Ok("CmioIoDriver"), None, drv_os[1])
          /\ drv_pc' = "ready"
       \/ \E errno \in Errnos : \E after1 \in {errno} \cup CleanupErrnos :
          \E after2 \in {after1} \cup CleanupErrnos :
            /\ drv_os' = Some(close(munmap(fails(drv_os[1], errno), "tx", after1),
                                    drv_self[1].fd, after2))
            /\ drv_last' = DrvCalled("new", <<>>, Err(IoError(errno)), None, drv_os[1])
            /\ drv_self' = None
            /\ drv_pc' = "returned"
    /\ UNCHANGED drv_others

\* the byte strings send_cmio is given
TxSamples == {[i \in 1..n |-> 7] : n \in 0..(MaxTxLen + 1)}

\* tx_buf[..tx_data.len()].copy_from_slice(tx_data)
copy_from_slice(buf, tx_data) ==
    [i \in 1..Len(buf) |-> IF i <= Len(tx_data) THEN tx_data[i] ELSE buf[i]]

\* what the emulator leaves in the RX mapping when it resumes the guest
\* with a reply of n bytes: n fresh bytes, the rest as it was
emulator_rx(rx, n, fresh) ==
    [i \in 1..Len(rx) |-> IF i <= n THEN fresh ELSE rx[i]]

\* (mutant) the TX mapping is written before the length is checked
DrvSendCmioWritesFirst ==
    /\ drv_pc = "ready"
    /\ drv_os[1].yields < MaxYields
    /\ \E tx_data \in TxSamples :
         /\ Len(tx_data) > drv_self[1].tx_len
         /\ drv_os' = Some([drv_os[1] EXCEPT !.tx = copy_from_slice(@, tx_data)])
         /\ drv_last' = DrvCalled("send_cmio", tx_data, Err(InvalidArgument), None,
                                  drv_os[1])
    /\ UNCHANGED <<drv_pc, drv_self>>
    /\ UNCHANGED drv_others

\* CmioIoDriver::send_cmio with tx_data.len() > self.tx_len()
DrvSendCmioTooLong ==
    /\ drv_pc = "ready"
    /\ drv_os[1].yields < MaxYields
    /\ \E tx_data \in TxSamples :
         /\ Len(tx_data) > drv_self[1].tx_len
         /\ drv_last' = DrvCalled("send_cmio", tx_data, Err(InvalidArgument), None,
                                  drv_os[1])
    /\ UNCHANGED <<drv_pc, drv_self, drv_os>>
    /\ UNCHANGED drv_others

\* CmioIoDriver::send_cmio otherwise: the copy into TX, yield_control (pack,
\* the cmio_yield ioctl, unpack) and the copy of RX
DrvSendCmio ==
    /\ drv_pc = "ready"
    /\ drv_os[1].yields < MaxYields
    /\ \E tx_data \in TxSamples, domain \in {<<0, 0>>, <<3, 0>>} :
         /\ Len(tx_data) <= drv_self[1].tx_len
         /\ LET written == [drv_os[1] EXCEPT !.tx = copy_from_slice(@, tx_data),
                                              !.yields = @ + 1]
                req == pack(CmioYield(<<HTIF_DEVICE_YIELD>>, <<HTIF_YIELD_CMD_MANUAL>>,
                                      domain, u32_to_le_bytes(Len(tx_data))))
            IN  \/ \E errno \in Errnos :
                     /\ drv_os' = Some(fails(written, errno))
                     /\ drv_last' = DrvCalled("send_cmio", tx_data, Err(IoError(errno)),
                                              None, drv_os[1])
                \/ \E n \in 0..drv_self[1].rx_len :
                     LET word == bitor(shl(shr(req, 32), 32),
                                       as_u64(u32_to_le_bytes(n)))
                         yield_data_ == unpack(word)
                         rx == emulator_rx(written.rx, n, written.yields)
                     IN  /\ drv_os' = Some([written EXCEPT !.rx = rx])
                         /\ drv_last' = DrvCalled("send_cmio", tx_data,
                                Ok(SubSeq(rx, 1, drv_self[1].rx_len)),
                                Some(u32_from_le_bytes(yield_data_.data)), drv_os[1])
    /\ UNCHANGED <<drv_pc, drv_self>>
    /\ UNCHANGED drv_others

\* impl Drop for CmioIoDriver
DrvDrop ==
    /\ drv_pc = "ready"
    /\ drv_os' = Some(close(munmap(munmap(drv_os[1], "tx", drv_os[1].errno),
                                   "rx", drv_os[1].errno),
                            drv_self[1].fd, drv_os[1].errno))
    /\ drv_self' = None
    /\ drv_pc' = "dropped"
    /\ UNCHANGED drv_last
    /\ UNCHANGED drv_others

\* ---- the mock build (mock.rs)
mock_new ==
    [tx_buf |-> [i \in 1..MOCK_BUF_SIZE |-> 0], rx_buf |-> [i \in 1..MOCK_BUF_SIZE |-> 0],
     pending_requests |-> <<>>, pending_responses |-> {}]

\* the mock's send_cmio: the driver after the call and the Result returned
mock_send_cmio(self, tx_data) ==
    LET hdr == VirtioVsockHdr_from_bytes(tx_data)
        stored == HashMapGet(self.pending_responses, hdr[1].src_port)
    IN  IF Len(tx_data) > Len(self.tx_buf)
        THEN [self |-> self, result |-> Err(InvalidArgument)]
        ELSE IF tx_data # <<>> /\ hdr # None
        THEN CASE hdr[1].op = VSOCK_OP_RESPONSE ->
                    [self |-> [self EXCEPT !.pending_responses =
                                   HashMapInsert(@, hdr[1].dst_port, tx_data)],
                     result |-> Ok(<<>>)]
               [] hdr[1].op = VSOCK_OP_RW ->
                    [self |-> self, result |-> Ok(<<>>)]
               [] hdr[1].op = VSOCK_OP_REQUEST ->
                    [self |-> [self EXCEPT
                                 !.pending_requests = Append(@, tx_data),
                                 !.pending_responses = HashMapRemove(@, hdr[1].src_port)],
                     result |-> IF stored = {} THEN Ok(<<>>)
                                ELSE Ok(CHOOSE v \in stored : TRUE)]
               [] OTHER ->
                    [self |-> self, result |-> Ok(<<>>)]
        ELSE IF self.pending_requests # <<>>
        THEN [self |-> [self EXCEPT !.pending_requests = Tail(@)],
              result |-> Ok(Head(self.pending_requests))]
        ELSE [self |-> self, result |-> Ok(<<>>)]

\* the byte strings the mock's send_cmio is given
MockTxSamples ==
    {<<>>, <<1>>, [i \in 1..(MOCK_BUF_SIZE + 1) |-> 7]}
    \cup {VirtioVsockHdr_to_bytes(VirtioVsockHdr(GUEST_CID, HOST_CID, 8080, 9000, 0, op)) :
            op \in {VSOCK_OP_REQUEST, VSOCK_OP_RESPONSE, VSOCK_OP_RW, VSOCK_OP_RST}}
    \cup {VirtioVsockHdr_to_bytes(VirtioVsockHdr(HOST_CID, GUEST_CID, 9000, 8080, 0,
                                                  VSOCK_OP_RESPONSE))}

MockNew ==
    /\ drv_pc = "mock_new"
    /\ drv_self' = Some(mock_new)
    /\ drv_last' = DrvCalled("new", <<>>, Ok("CmioIoDriver"), None, drv_os[1])
    /\ drv_pc' = "mock_ready"
    /\ UNCHANGED drv_os
    /\ UNCHANGED drv_others

MockSendCmio ==
    /\ drv_pc = "mock_ready"
    /\ \E tx_data \in MockTxSamples :
         /\ Len(drv_self[1].pending_requests) < MaxYields
         /\ drv_self' = Some(mock_send_cmio(drv_self[1], tx_data).self)
         /\ drv_last' = DrvCalled("send_cmio", tx_data,
                                  mock_send_cmio(drv_self[1], tx_data).result, None,
                                  [drv_os[1] EXCEPT !.tx = drv_self[1].tx_buf])
    /\ UNCHANGED <<drv_pc, drv_os>>
    /\ UNCHANGED drv_others

\* the TX mapping of the driver in use
TxMapping ==
    IF drv_pc = "mock_ready" THEN drv_self[1].tx_buf ELSE drv_os[1].tx

DrvNext ==
    \/ DrvOpen
    \/ DrvSetup
    \/ DrvMmapTx
    \/ DrvMmapRx
    \/ DrvSendCmioTooLong
    \/ DrvSendCmio
    \/ DrvDrop
    \/ MockNew
    \/ MockSendCmio

DrvSpec == DrvInit /\ [][DrvNext]_vars

\* ------------------------------------------------------------------------
\* Properties of the CMIO driver
\* ------------------------------------------------------------------------
\* C23: initialisation rollback.  When CmioIoDriver::new has returned an
\* error, no descriptor it opened is open, no region it mapped is mapped,
\* and the error returned is the first one a call of new met.
C23_DriverInitRollback ==
    drv_pc = "returned"
    => /\ drv_os[1].open_fds = {}
       /\ drv_os[1].mapped = {}
       /\ drv_last[1].call = "new"
       /\ drv_os[1].first_error # None
       /\ drv_last[1].result = Err(IoError(drv_os[1].first_error[1]))

\* C23 witness: new failed at the RX mmap, after the descriptor was opened
\* and TX mapped, and the clean-up calls changed errno.
C23_Witness ==
    /\ drv_pc = "returned"
    /\ drv_os[1].mapped_ever = {"tx"}
    /\ drv_os[1].errno # drv_os[1].first_error[1]

\* C24: send_cmio with tx_data longer than the TX mapping returns
\* InvalidArgument, leaves the TX mapping as it was and issues no yield, in
\* the device build and in the mock build.
C24_SendCmioTooLong ==
    (/\ drv_last # None
     /\ drv_last[1].call = "send_cmio"
     /\ Len(drv_last[1].tx_data) > Len(drv_last[1].tx_before))
    => /\ drv_last[1].result = Err(InvalidArgument)
       /\ TxMapping = drv_last[1].tx_before
       /\ drv_os[1].yields = drv_last[1].yields_before

\* C24 witness: the device build has refused a tx_data one byte longer than
\* a TX mapping that an earlier send_cmio had written.
C24_Witness ==
    /\ drv_pc = "ready"
    /\ drv_last[1].call = "send_cmio"
    /\ Len(drv_last[1].tx_data) = Len(drv_last[1].tx_before) + 1
    /\ drv_last[1].result = Err(InvalidArgument)
    /\ drv_os[1].yields > 0

\* C26: CMIO buffer bounds.  The bytes a successful send_cmio of the device
\* build returns are no more than the payload length the yield reply
\* reported, and the TX mapping keeps its mapped length.
C26_CmioBufferBounds ==
    (/\ drv_pc = "ready"
     /\ drv_last[1].call = "send_cmio"
     /\ drv_last[1].result.ok)
    => /\ Len(drv_last[1].result.value[1]) <= drv_last[1].reported[1]
       /\ Len(drv_os[1].tx) = drv_self[1].tx_len

\* ========================================================================
\* Part 8: the guest agent (src/packages/guest-agent/src/lib.rs) and the
\*         host agent's REQUEST (src/packages/host-agent/src/lib.rs)
\* ========================================================================

\* the most local vsock streams the agent opens in the runs of the model
MaxStreams == 3
\* the most bytes one read of a local stream returns
MaxRead == 2

ConnectionKey_from(hdr) == [cid |-> hdr.src_cid, port |-> hdr.src_port]

\* (mutant) the reply keeps the request's ports unswapped
create_reply_header_keeps_ports(request_hdr, op, len) ==
    [src_cid |-> request_hdr.dst_cid, dst_cid |-> request_hdr.src_cid,
     src_port |-> request_hdr.src_port, dst_port |-> request_hdr.dst_port,
     len |-> len, type_ |-> request_hdr.type_, op |-> op, flags |-> 0,
     buf_alloc |-> request_hdr.buf_alloc, fwd_cnt |-> 0]

create_reply_header(request_hdr, op, len) ==
    [src_cid |-> request_hdr.dst_cid, dst_cid |-> request_hdr.src_cid,
     src_port |-> request_hdr.dst_port, dst_port |-> request_hdr.src_port,
     len |-> len, type_ |-> request_hdr.type_, op |-> op, flags |-> 0,
     buf_alloc |-> request_hdr.buf_alloc, fwd_cnt |-> 0]

\* the packet send_response_to_cmio / send_reset_to_cmio hands to send_cmio
send_response_to_cmio(request_hdr) ==
    Packet_new(create_reply_header(request_hdr, VSOCK_OP_RESPONSE, 0), <<>>)

send_reset_to_cmio(request_hdr) ==
    Packet_new(create_reply_header(request_hdr, VSOCK_OP_RST, 0), <<>>)

\* (mutant) the RW packet declares the whole read buffer
rw_packet_declares_buffer(request_hdr, data) ==
    Packet_new(create_reply_header(request_hdr, VSOCK_OP_RW, MAX_PAYLOAD_LEN), data)

\* poll_vsock_connections, Ok(n): the RW packet for the n bytes read
rw_packet(request_hdr, data) ==
    Packet_new(create_reply_header(request_hdr, VSOCK_OP_RW, Len(data)), data)

\* the host agent's REQUEST packet (run_agent of the host agent)
host_agent_request(host_cid, host_port) ==
    Packet_new([src_cid |-> host_cid, dst_cid |-> host_cid, src_port |-> host_port,
                dst_port |-> host_port, len |-> 0, type_ |-> VSOCK_TYPE_STREAM,
                op |-> VSOCK_OP_REQUEST, flags |-> 0, buf_alloc |-> 0, fwd_cnt |-> 0],
               <<>>)

\* ---- the host side (the environment): what the poll of CMIO may return
\* a header none of whose fields the runner's construct_packet would write
ForeignHdr(op, len) ==
    [src_cid |-> 7, dst_cid |-> 1, src_port |-> 1026, dst_port |-> 8081, len |-> len,
     type_ |-> 5, op |-> op, flags |-> 9, buf_alloc |-> 65536, fwd_cnt |-> 11]

\* packets the host may send, as construct_packet, the host agent or a
\* foreign peer builds them
HostPackets ==
    {construct_packet(8080, op, payload) :
        op \in {VSOCK_OP_REQUEST, VSOCK_OP_RW, VSOCK_OP_RST, VSOCK_OP_CREDIT_UPDATE},
        payload \in {<<>>, <<104, 105>>}}
    \cup {host_agent_request(HOST_CID, HOST_PORT)}
    \cup {Packet_new(ForeignHdr(op, 0), <<>>) :
            op \in {VSOCK_OP_REQUEST, VSOCK_OP_SHUTDOWN}}
    \cup {Packet_new(ForeignHdr(VSOCK_OP_RW, 1), <<33>>)}

\* the byte strings send_cmio(&[], CMIO_QUEUE_ID) may return: nothing, the
\* packets above, a packet followed by the rest of the mapping, a packet
\* cut short of its declared length, and less than a header
CmioSamples ==
    {<<>>, <<1, 2, 3>>}
    \cup {Packet_to_bytes(p) : p \in HostPackets}
    \cup {Packet_to_bytes(construct_packet(8080, VSOCK_OP_RW, <<104>>)) \o <<0, 0>>}
    \cup {VirtioVsockHdr_to_bytes(ForeignHdr(VSOCK_OP_RW, 3)) \o <<33>>}

GaInit ==
    /\ runner_idle /\ codec_idle /\ yield_idle /\ nbd_idle /\ hc_idle /\ hs_idle /\ drv_idle /\ comp_idle
    /\ ga_pc = "poll_vsock"
    /\ ga_connections = {}
    /\ ga_streams = Some([next |-> 1, open |-> {}])
    /\ ga_last = None

ga_others == <<runner_vars, codec_vars, yield_vars, nbd_vars, hc_vars, hs_vars, drv_vars,
              comp_vars>>

\* history: a packet handed to send_cmio, the header it was built from and
\* whether send_cmio returned Ok
Sent(pkt, request_hdr, ok) == [packet |-> pkt, from |-> request_hdr, ok |-> ok]

\* history of the last handler: the packet decoded, the packets handed to
\* send_cmio, the outcome of VsockStream::connect ("none" when not called),
\* the data written to local streams, and the state the handler started in
GaHandled(handler, decoded, sent, connected, written) ==
    Some([handler |-> handler, decoded |-> decoded, sent |-> sent,
          connected |-> connected, written |-> written,
          before |-> ga_connections, streams_before |-> ga_streams[1]])

\* the outcomes of connection.stream.read(&mut read_buf)
ReadOutcomes ==
    {[kind |-> k, n |-> 0] : k \in {"closed", "would_block", "error"}}
    \cup {[kind |-> "data", n |-> n] : n \in 1..MaxRead}

\* the packets of the connections in iteration order, as one Vec
RECURSIVE Flatten(_)
Flatten(f) == IF f = <<>> THEN <<>> ELSE Head(f) \o Flatten(Tail(f))

\* poll_vsock_connections: the connections pushed to to_remove
to_remove(read) == {e \in ga_connections : read[e.key].kind \in {"closed", "error"}}

\* ConnectionManager::poll_vsock_connections: every connection is read
\* once, in the map's iteration order; then the RW packets are sent, then
\* the resets, then the ended connections are removed
poll_vsock_connections(outcomes) ==
    /\ \E order \in IterationOrders(ga_connections),
          read \in [Keys(ga_connections) -> outcomes],
          send_ok \in [Keys(ga_connections) -> BOOLEAN] :
         LET n == Cardinality(ga_connections)
             is_data(i) == read[order[i].key].kind = "data"
             data(i) == PayloadOf(read[order[i].key].n)
             packets_to_send ==
                 [i \in 1..n |-> IF is_data(i)
                                 THEN <<Sent(rw_packet(order[i].value.request_hdr, data(i)),
                                             order[i].value.request_hdr,
                                             send_ok[order[i].key])>>
                                 ELSE <<>>]
             echoed ==
                 [i \in 1..n |-> IF is_data(i)
                                 THEN <<[stream |-> order[i].value.stream,
                                         data |-> data(i)]>>
                                 ELSE <<>>]
             resets_to_send ==
                 [i \in 1..n |-> IF read[order[i].key].kind = "error"
                                 THEN <<Sent(send_reset_to_cmio(order[i].value.request_hdr),
                                             order[i].value.request_hdr,
                                             send_ok[order[i].key])>>
                                 ELSE <<>>]
         IN  /\ ga_connections' = ga_connections \ to_remove(read)
             /\ ga_streams' = Some([ga_streams[1] EXCEPT
                                      !.open = @ \ {e.value.stream : e \in to_remove(read)}])
             /\ ga_last' = GaHandled("poll_vsock_connections", None,
                                     Flatten(packets_to_send) \o Flatten(resets_to_send),
                                     "none", Flatten(echoed))

\* run_agent: manager.poll_vsock_connections()
GaPollVsock ==
    /\ ga_pc = "poll_vsock"
    /\ poll_vsock_connections(ReadOutcomes)
    /\ ga_pc' = "poll_cmio"
    /\ UNCHANGED ga_others

\* (mutant) a REQUEST for a key that has a connection opens another one
GaRequestReplaces(hdr, decoded) ==
    LET key == ConnectionKey_from(hdr)
        stream == ga_streams[1].next
    IN  /\ ga_streams[1].next <= MaxStreams
        /\ ga_last' = GaHandled("poll_cmio", decoded,
                                <<Sent(send_response_to_cmio(hdr), hdr, TRUE)>>, "ok", <<>>)
        /\ ga_connections' = HashMapInsert(ga_connections, key,
                                [stream |-> stream, request_hdr |-> hdr])
        /\ ga_streams' = Some([next |-> stream + 1,
                               open |-> ga_streams[1].open \cup {stream}])

\* ConnectionManager::handle_new_connection_request
GaRequest(hdr, decoded) ==
    LET key == ConnectionKey_from(hdr)
        stream == ga_streams[1].next
    IN  IF HashMapGet(ga_connections, key) # {}
        THEN /\ ga_last' = GaHandled("poll_cmio", decoded, <<>>, "none", <<>>)
             /\ UNCHANGED <<ga_connections, ga_streams>>
        ELSE \/ \* VsockStream::connect fails: the reset is handed to send_cmio
                \E ok \in BOOLEAN :
                  /\ ga_last' = GaHandled("poll_cmio", decoded,
                                          <<Sent(send_reset_to_cmio(hdr), hdr, ok)>>,
                                          "failed", <<>>)
                  /\ UNCHANGED <<ga_connections, ga_streams>>
             \/ \* set_nonblocking fails: `?` returns, the stream is dropped
                /\ ga_streams[1].next <= MaxStreams
                /\ ga_streams' = Some([ga_streams[1] EXCEPT !.next = @ + 1])
                /\ ga_last' = GaHandled("poll_cmio", decoded, <<>>, "ok", <<>>)
                /\ UNCHANGED ga_connections
             \/ \* the response is handed to send_cmio; if that fails `?`
                \* returns before the insert and the stream is dropped
                /\ ga_streams[1].next <= MaxStreams
                /\ \E ok \in BOOLEAN :
                     /\ ga_last' = GaHandled("poll_cmio", decoded,
                                             <<Sent(send_response_to_cmio(hdr), hdr, ok)>>,
                                             "ok", <<>>)
                     /\ IF ok
                        THEN /\ ga_connections' = HashMapInsert(ga_connections, key,
                                                     [stream |-> stream, request_hdr |-> hdr])
                             /\ ga_streams' = Some([next |-> stream + 1,
                                                    open |-> ga_streams[1].open \cup {stream}])
                        ELSE /\ ga_streams' = Some([ga_streams[1] EXCEPT !.next = @ + 1])
                             /\ UNCHANGED ga_connections

\* (mutant) RST and SHUTDOWN close the connection keyed by the packet's
\* destination
GaTeardownByDst(pkt) ==
    LET gone == {e \in ga_connections :
                    e.key = [cid |-> pkt.hdr.dst_cid, port |-> pkt.hdr.dst_port]}
    IN  /\ ga_connections' = ga_connections \ gone
        /\ ga_streams' = Some([ga_streams[1] EXCEPT
                                 !.open = @ \ {e.value.stream : e \in gone}])
        /\ ga_last' = GaHandled("poll_cmio", Some(pkt), <<>>, "none", <<>>)

\* handle_cmio_packet, VSOCK_OP_RST | VSOCK_OP_SHUTDOWN
GaTeardown(pkt) ==
    LET key == ConnectionKey_from(pkt.hdr)
        found == HashMapGet(ga_connections, key)
    IN  /\ ga_connections' = HashMapRemove(ga_connections, key)
        /\ ga_streams' = Some([ga_streams[1] EXCEPT
                                 !.open = @ \ {c.stream : c \in found}])
        /\ ga_last' = GaHandled("poll_cmio", Some(pkt), <<>>, "none", <<>>)

\* handle_cmio_packet, VSOCK_OP_RW: the payload is written to the stream of
\* the connection, if there is one and the payload is not empty
GaForward(pkt) ==
    LET key == ConnectionKey_from(pkt.hdr)
        found == HashMapGet(ga_connections, key)
    IN  /\ ga_last' = GaHandled("poll_cmio", Some(pkt), <<>>, "none",
                                IF found # {} /\ pkt.payload # <<>>
                                THEN <<[stream |-> (CHOOSE c \in found : TRUE).stream,
                                        data |-> pkt.payload]>>
                                ELSE <<>>)
        /\ UNCHANGED <<ga_connections, ga_streams>>

\* ConnectionManager::handle_cmio_packet
GaHandleCmioPacket(pkt) ==
    IF pkt.hdr.op = VSOCK_OP_REQUEST THEN GaRequest(pkt.hdr, Some(pkt))
    ELSE IF pkt.hdr.op = VSOCK_OP_RW THEN GaForward(pkt)
    ELSE IF pkt.hdr.op \in {VSOCK_OP_RST, VSOCK_OP_SHUTDOWN} THEN GaTeardown(pkt)
    ELSE \* other ops are logged
         /\ ga_last' = GaHandled("poll_cmio", Some(pkt), <<>>, "none", <<>>)
         /\ UNCHANGED <<ga_connections, ga_streams>>

\* ConnectionManager::poll_cmio once send_cmio(&[], CMIO_QUEUE_ID) has
\* returned Ok(cmio_bytes)
poll_cmio(cmio_bytes) ==
    IF cmio_bytes = <<>> \/ ~Packet_from_bytes(cmio_bytes).ok
    THEN /\ ga_last' = GaHandled("poll_cmio", None, <<>>, "none", <<>>)
         /\ UNCHANGED <<ga_connections, ga_streams>>
    ELSE GaHandleCmioPacket(Packet_from_bytes(cmio_bytes).value[1])

\* run_agent: manager.poll_cmio()
GaPollCmio ==
    /\ ga_pc = "poll_cmio"
    /\ \/ \* send_cmio(&[], CMIO_QUEUE_ID) fails
          /\ ga_last' = GaHandled("poll_cmio", None, <<>>, "none", <<>>)
          /\ UNCHANGED <<ga_connections, ga_streams>>
       \/ \E cmio_bytes \in CmioSamples : poll_cmio(cmio_bytes)
    /\ ga_pc' = "poll_vsock"
    /\ UNCHANGED ga_others

GaNext ==
    \/ GaPollVsock
    \/ GaPollCmio

GaSpec == GaInit /\ [][GaNext]_vars

\* ------------------------------------------------------------------------
\* Properties of the guest agent
\* ------------------------------------------------------------------------
\* the header the claim describes as the reply to h
SwappedReply(h, op, len) ==
    [src_cid |-> h.dst_cid, dst_cid |-> h.src_cid, src_port |-> h.dst_port,
     dst_port |-> h.src_port, len |-> len, type_ |-> h.type_, op |-> op,
     flags |-> 0, buf_alloc |-> h.buf_alloc, fwd_cnt |-> 0]

\* C25: reply header construction.  Every packet the guest agent hands to
\* send_cmio is a RESPONSE, RST or RW whose header is the swapped reply to
\* the header its connection was requested with: cids and ports exchanged,
\* type and buf_alloc kept, the packet's own op and len, flags and fwd_cnt 0.
C25_ReplyHeader ==
    /\ \A p \in HostPackets, op \in GuestOps, len \in {0, 1, MAX_PAYLOAD_LEN} :
          create_reply_header(p.hdr, op, len) = SwappedReply(p.hdr, op, len)
    /\ \A e \in ga_connections : e.key = ConnectionKey_from(e.value.request_hdr)
    /\ ga_last # None =>
          \A i \in 1..Len(ga_last[1].sent) :
              LET s == ga_last[1].sent[i]
              IN  /\ s.packet.hdr.op \in {VSOCK_OP_RESPONSE, VSOCK_OP_RST, VSOCK_OP_RW}
                  /\ s.packet.hdr = SwappedReply(s.from, s.packet.hdr.op, s.packet.hdr.len)
                  /\ s.packet.hdr.len = Len(s.packet.payload)
                  /\ s.from.op = VSOCK_OP_REQUEST

\* C25 witness: one poll of the streams has sent an RW and an RST for two
\* connections, one of them requested with the foreign header.
C25_Witness ==
    /\ ga_last # None
    /\ ga_last[1].handler = "poll_vsock_connections"
    /\ Len(ga_last[1].sent) = 2
    /\ ga_last[1].sent[1].packet.hdr.op = VSOCK_OP_RW
    /\ ga_last[1].sent[2].packet.hdr.op = VSOCK_OP_RST
    /\ \E i \in 1..2 : ga_last[1].sent[i].from.buf_alloc # 0

\* C27: packet length invariant.  The packet the guest agent has decoded,
\* the packets it has handed to send_cmio, the packets construct_packet and
\* the host agent build and what the codec decodes from their bytes all
\* have a payload as long as the header's len.
C27_PacketLength ==
    /\ ga_last # None =>
         /\ ga_last[1].decoded # None =>
              Len(ga_last[1].decoded[1].payload) = ga_last[1].decoded[1].hdr.len
         /\ \A i \in 1..Len(ga_last[1].sent) :
              Len(ga_last[1].sent[i].packet.payload) = ga_last[1].sent[i].packet.hdr.len
    /\ \A p \in HostPackets : Len(p.payload) = p.hdr.len
    /\ \A bytes \in CmioSamples \cup {Packet_to_bytes(g) \o rest :
                                        g \in GuestPackets, rest \in {<<>>, <<0>>}} :
         Packet_from_bytes(bytes).ok =>
            LET p == Packet_from_bytes(bytes).value[1]
            IN  Len(p.payload) = p.hdr.len

\* C27 witness: the agent has decoded a packet with a payload from bytes
\* that went on after the packet's end.
C27_Witness ==
    /\ ga_last # None
    /\ ga_last[1].decoded # None
    /\ ga_last[1].decoded[1].payload = <<104>>


\* ------------------------------------------------------------------------
\* Properties of the runner's write queue
\* ------------------------------------------------------------------------
\* C28: host addressing invariant.  Every packet on the runner's write
\* queue is addressed from the host (cid 3, port 1025) to the guest (cid 1)
\* and is of type STREAM, whatever the guest sent before.
C28_HostAddressing ==
    \A i \in 1..Len(cmio_write_queue) :
        /\ cmio_write_queue[i].hdr.src_cid = 3
        /\ cmio_write_queue[i].hdr.dst_cid = 1
        /\ cmio_write_queue[i].hdr.src_port = 1025
        /\ cmio_write_queue[i].hdr.type_ = VSOCK_TYPE_STREAM

\* C28 witness: the queue holds a reply to a guest packet (RESPONSE or RST)
\* next to a packet one of the runner's own flows produced (REQUEST or RW).
C28_Witness ==
    /\ \E i \in 1..Len(cmio_write_queue) :
          cmio_write_queue[i].hdr.op \in {VSOCK_OP_RESPONSE, VSOCK_OP_RST}
    /\ \E i \in 1..Len(cmio_write_queue) :
          cmio_write_queue[i].hdr.op \in {VSOCK_OP_REQUEST, VSOCK_OP_RW}

\* ------------------------------------------------------------------------
\* Properties of the HTTP client's request staging
\* ------------------------------------------------------------------------
\* the requests staged for port
Pending(h, port) == HashMapGet(h.http_client.pending_requests, port)

C29_Step ==
    \A port \in HcPorts :
        LET before == Pending(hc_client[1], port)
            after  == Pending(hc_client'[1], port)
            staged == create_http_request(hc_client[1].target_host)
            last   == hc_last'[1]
        IN  /\ (last.callback = "get_write_data" /\ last.port = port) =>
                  /\ last.result = IF before = {} THEN None ELSE Some(staged)
                  /\ after = {}
                  /\ last.result # None =>
                        handle_http_request(last.result[1]) = Some(RESPONSE_HEALTH)
            /\ (last.callback = "on_connect_success" /\ last.port = port) =>
                  after = {staged}
            /\ (before = {} /\ after # {}) =>
                  last.callback \in {"on_connect_success", "on_data"}
            /\ after \subseteq {staged}

\* C29: HTTP client request staging.  A get_write_data(port) returns the
\* request make_request(port, ..) staged, byte for byte, and takes it out
\* of the client, so that get_write_data(port) returns nothing again until
\* another make_request; the echo server's handle_http_request answers
\* the returned request with a response.
C29_RequestStaging == [][C29_Step]_vars

\* C29 witness: get_write_data has returned the request that was staged
\* again after a failed health check.
C29_Witness ==
    /\ hc_last # None
    /\ hc_last[1].callback = "get_write_data"
    /\ hc_last[1].result = Some(create_http_request(localhost_8080))
    /\ hc_client[1].health_check_retries >= 1

\* ------------------------------------------------------------------------
\* Properties of receive_packet
\* ------------------------------------------------------------------------
\* the request carries data a packet decodes from, in a variant that
\* receive_packet reads the data of
Decodable(request) ==
    /\ request.variant \in {"TxOutput", "GIO"}
    /\ request.data # <<>>
    /\ Packet_from_bytes(request.data).ok

C30_Step ==
    (pc = "receive" /\ n_receive' = n_receive + 1) =>
        /\ packet' # None <=> Decodable(cmio_request)
        /\ packet' # None => packet' = Packet_from_bytes(cmio_request.data).value
        /\ pc' = "respond"
        /\ UNCHANGED <<listeners, connections, connection_requests, cmio_write_queue,
                       cmio_read_queue>>

\* C30: receive_packet returns a packet exactly when the request is
\* Automatic/TxOutput or Manual/GIO with data that is not empty and
\* decodes, and then the decoded packet; for every other request it
\* returns None, the iteration goes on to answer the yield, and the call
\* leaves listeners, connections, connection requests and both queues as
\* they were.
C30_ReceivePacket == [][C30_Step]_vars

\* C30 witness: receive_packet has returned None for data that does not
\* decode, or for data in a variant it does not read, while a connection
\* is open and a packet waits in the write queue.
C30_Witness ==
    /\ pc = "respond"
    /\ packet = None
    /\ cmio_request.data # <<>>
    /\ connections # {}
    /\ cmio_write_queue # <<>>

\* the last handler was poll_cmio and dispatched a packet with one of ops
GaDispatched(ops) ==
    /\ ga_last # None
    /\ ga_last[1].handler = "poll_cmio"
    /\ ga_last[1].decoded # None
    /\ ga_last[1].decoded[1].hdr.op \in ops

\* the key of the packet the last handler dispatched
GaKey == ConnectionKey_from(ga_last[1].decoded[1].hdr)

\* C31: guest agent teardown.  After handle_cmio_packet has handled an RST
\* or SHUTDOWN, the connections are those it started with less the one
\* keyed by the packet's (src_cid, src_port), each as it was; and an RW for
\* a key without a connection writes to no stream, sends nothing and
\* leaves the connections as they were.
C31_Teardown ==
    /\ GaDispatched({VSOCK_OP_RST, VSOCK_OP_SHUTDOWN}) =>
          /\ ga_connections = {e \in ga_last[1].before : e.key # GaKey}
          /\ ga_streams[1].open = {e.value.stream : e \in ga_connections}
    /\ (GaDispatched({VSOCK_OP_RW}) /\ GaKey \notin Keys(ga_last[1].before)) =>
          /\ ga_last[1].written = <<>>
          /\ ga_last[1].sent = <<>>
          /\ ga_connections = ga_last[1].before

\* C31 witness: an RST or SHUTDOWN has removed one of two connections.
C31_Witness ==
    /\ GaDispatched({VSOCK_OP_RST, VSOCK_OP_SHUTDOWN})
    /\ Cardinality(ga_last[1].before) = 2
    /\ Cardinality(ga_connections) = 1
    /\ GaKey \notin Keys(ga_connections)

\* C32: guest agent duplicate REQUEST.  A REQUEST for a key that has a
\* connection opens no stream, sends nothing and leaves the connections as
\* they were.  For a key without one, a connection is inserted only when
\* the connect succeeded and the RESPONSE was sent, it is then the only
\* change, and a failed connect hands an RST to send_cmio and inserts
\* nothing.
C32_DuplicateRequest ==
    GaDispatched({VSOCK_OP_REQUEST}) =>
        LET L == ga_last[1]
            hdr == L.decoded[1].hdr
        IN  /\ GaKey \in Keys(L.before) =>
                  /\ L.connected = "none"
                  /\ L.sent = <<>>
                  /\ ga_connections = L.before
                  /\ ga_streams[1] = L.streams_before
            /\ GaKey \notin Keys(L.before) =>
                  /\ ga_connections # L.before =>
                        /\ L.connected = "ok"
                        /\ Len(L.sent) = 1
                        /\ L.sent[1].packet = send_response_to_cmio(hdr)
                        /\ L.sent[1].ok
                        /\ ga_connections = L.before \cup
                              {[key |-> GaKey,
                                value |-> [stream |-> L.streams_before.next,
                                           request_hdr |-> hdr]]}
                  /\ L.connected = "failed" =>
                        /\ Len(L.sent) = 1
                        /\ L.sent[1].packet = send_reset_to_cmio(hdr)
                        /\ ga_connections = L.before
            /\ \A e, f \in ga_connections : e.key = f.key => e = f

\* C32 witness: a REQUEST for a key with a connection has been handled
\* while another key had none.
C32_Witness ==
    /\ GaDispatched({VSOCK_OP_REQUEST})
    /\ GaKey \in Keys(ga_last[1].before)
    /\ Cardinality(ga_last[1].before) = 1
    /\ ga_last[1].streams_before.next <= MaxStreams

\* C36: guest agent close notification.  After poll_vsock_connections,
\* for every connection it has removed a SHUTDOWN or RST built from that
\* connection's request header was handed to send_cmio.
C36_CloseNotification ==
    (ga_last # None /\ ga_last[1].handler = "poll_vsock_connections") =>
        \A e \in ga_last[1].before \ ga_connections :
            \E i \in 1..Len(ga_last[1].sent) :
                /\ ga_last[1].sent[i].packet.hdr.op \in {VSOCK_OP_SHUTDOWN, VSOCK_OP_RST}
                /\ ga_last[1].sent[i].from = e.value.request_hdr

\* ------------------------------------------------------------------------
\* Properties of the order of the runner's write queue
\* ------------------------------------------------------------------------
C33_Step ==
    (pc = "respond" /\ Len(cmio_write_queue') < Len(cmio_write_queue)) =>
        /\ response' = PacketResponse(Head(cmio_write_queue))
        /\ cmio_write_queue' = Tail(cmio_write_queue)

\* C33: outbound delivery order.  The packet a tick sends to the guest is
\* the one that was enqueued first among those on the write queue, and the
\* others stay queued in their order.
C33_OutboundOrder == [][C33_Step]_vars

\* ------------------------------------------------------------------------
\* run_machine_loop under a guest that keeps asking: the specification for
\* progress of the write queue
\* ------------------------------------------------------------------------
\* the longest write queue at which the guest of LiveSpec still transmits a
\* REQUEST
MaxLiveQueue == 2

\* what the guest of LiveSpec leaves in its TX buffer: nothing, or a REQUEST
LiveRequests ==
    {r \in CmioRequests :
        /\ r.variant = "GIO"
        /\ receive_packet(r) # None => receive_packet(r)[1].hdr.op = VSOCK_OP_REQUEST
        /\ receive_packet(r) = None => r.data = <<>>}

\* run_machine_until_yield(machine)? returns, the guest being the one above
LiveYield ==
    /\ pc = "run"
    /\ \E request \in LiveRequests :
         /\ receive_packet(request) # None => Len(cmio_write_queue) < MaxLiveQueue
         /\ cmio_request' = request
    /\ pc' = "receive"
    /\ yielded' = TRUE
    /\ n_receive' = 0
    /\ n_response' = 0
    /\ response' = NoResponse
    /\ UNCHANGED <<listeners, connections, connection_requests, cmio_write_queue,
                   cmio_read_queue, packet, dispatched, guest_rw, requests_enqueued>>
    /\ UNCHANGED non_runner_vars

LiveNext ==
    \/ listen
    \/ connect
    \/ LiveYield
    \/ ReceivePacket
    \/ Respond
    \/ Drain
    \/ WalkConnections
    \/ WalkConnectionRequests
    \/ MachineFails

\* the loop is sequential: it always goes on to its next statement
LiveSpec == Init /\ [][LiveNext]_vars /\ WF_vars(LiveNext)

\* the REQUEST the loop enqueues for its connection request
LoopRequest == construct_packet(LOOP_REQUEST_PORT, VSOCK_OP_REQUEST, <<>>)

InWriteQueue(p) == \E i \in 1..Len(cmio_write_queue) : cmio_write_queue[i] = p

\* C34: outbound progress.  If the machine keeps yielding and ticks that
\* carry no guest packet keep coming, the REQUEST on the write queue is
\* eventually sent to the guest, whatever is enqueued after it.
C34_OutboundProgress ==
    ([]<>(pc = "respond" /\ packet = None)) =>
        (InWriteQueue(LoopRequest) ~> (response = PacketResponse(LoopRequest)))

\* C35: established connections keep their data.  When a REQUEST or a
\* RESPONSE has been dispatched for a peer port that had a connection, the
\* connection of that port is the one it was, with the payloads buffered
\* for it.
C35_EstablishedKeepData ==
    (/\ pc = "walk_connections"
     /\ dispatched # None
     /\ DispatchedPacket.hdr.op \in {VSOCK_OP_REQUEST, VSOCK_OP_RESPONSE}) =>
        \A c \in get_connection(Before, DispatchedPacket.hdr.src_port) :
            get_connection(State, DispatchedPacket.hdr.src_port) = {c}

\* ------------------------------------------------------------------------
\* Properties of the NBD export as a store
\* ------------------------------------------------------------------------
\* C38: NBD failed operations leave the store unchanged.  A step leaves
\* the export as long as it was; a step of a task inside Export::read
\* leaves every byte; a step in which Export::write fails leaves every
\* byte; and the bytes change only by a step in which Export::write
\* succeeds.  size() therefore reports the size of the start for ever.
C38_NbdFailedOpsKeepStore ==
    [][/\ InMemoryExport_size(nbd_export') = InMemoryExport_size(nbd_export)
       /\ InMemoryExport_size(nbd_export') = usize(ExportSize)
       /\ \A i \in Conns :
            /\ (nbd_tasks[i].pc = "read_export" /\ nbd_tasks'[i] # nbd_tasks[i])
               => nbd_export' = nbd_export
            /\ (nbd_tasks[i].pc = "write_export" /\ nbd_tasks'[i].pc = "returned_err")
               => nbd_export' = nbd_export
       /\ nbd_export' # nbd_export =>
            \E i \in Conns : /\ nbd_tasks[i].pc = "write_export"
                             /\ nbd_tasks'[i].pc = "write_reply"
      ]_vars

\* C38 witness: a WRITE whose range ends past the export has failed in
\* Export::write while the export held bytes of an earlier WRITE.
C38_Witness ==
    /\ JustFinished(NBD_CMD_WRITE)
    /\ nbd_last[1].export_used
    /\ nbd_last[1].outcome = "error"
    /\ ~InBounds(LastRequest, ExportSize)
    /\ \E k \in 1..ExportSize : nbd_export[k] # 0

\* the task of connection i waits for bytes its client has not sent and has
\* not closed its side either
Stalled(i) ==
    \/ /\ nbd_tasks[i].pc = "request"
       /\ Len(nbd_streams[i].inbuf) < REQUEST_SIZE
       /\ ~nbd_streams[i].in_closed
    \/ /\ nbd_tasks[i].pc = "write_body"
       /\ ~less_eq(as_u64(nbd_tasks[i].request[1].length), usize(Len(nbd_streams[i].inbuf)))
       /\ ~nbd_streams[i].in_closed

\* C39: NBD lock scope.  No task holds the export mutex at a position where
\* it waits on its socket (reading the request header, reading the payload
\* of a WRITE, writing a reply) or after it has returned: the holder, if
\* any, is inside Export::read or Export::write, which needs no socket.  So
\* a task waiting for the mutex while another client is stalled in the
\* middle of a request finds the mutex free or held by a task that is not
\* stalled and not that client's.
C39_NbdLockScope ==
    /\ \A i \in Conns :
         nbd_tasks[i].pc \in SocketPcs \cup ReturnedPcs \cup {"read_lock", "write_lock"}
             => nbd_mutex # i
    /\ \A i, j \in Conns :
         (Stalled(i) /\ nbd_tasks[j].pc \in {"read_lock", "write_lock"})
             => \/ nbd_mutex = 0
                \/ /\ nbd_mutex \in Conns \ {i, j}
                   /\ nbd_tasks[nbd_mutex].pc \in {"read_export", "write_export"}

\* connection 1 has sent the header of a WRITE but not its payload, and a
\* READ or WRITE of connection 2 that used the export has been served
\* meanwhile
C39_Witness ==
    /\ nbd_tasks[1].pc = "write_body"
    /\ Stalled(1)
    /\ nbd_last # None
    /\ nbd_last[1].conn = 2
    /\ nbd_last[1].kind = "request"
    /\ nbd_last[1].export_used
    /\ nbd_last[1].outcome = "served"
    /\ nbd_mutex = 0

\* ------------------------------------------------------------------------
\* The guest agent inside the runner's machine: run_machine_loop composed
\* with run_agent.  The machine runs only inside machine.run(), so the
\* agent takes its steps while the runner is at "run"; machine.run()
\* returns when the agent calls send_cmio, and the agent continues, with
\* the response in its RX mapping, when the runner is back at "run".
\* ------------------------------------------------------------------------
\* length of the RX mapping, in bytes
CompRxLen == 40

Zeros(n) == [i \in 1..n |-> 0]

Agent == comp_agent[1]

CompInit ==
    /\ runner_idle /\ codec_idle /\ yield_idle /\ nbd_idle /\ hc_idle /\ hs_idle /\ drv_idle
    /\ ga_pc = "poll_vsock"
    /\ ga_connections = {}
    /\ ga_streams = Some([next |-> 1, open |-> {}])
    /\ ga_last = None
    /\ comp_agent = Some([wait |-> "none", outbox |-> <<>>, rx |-> Zeros(CompRxLen)])
    /\ comp_last = None

comp_others == <<codec_vars, yield_vars, nbd_vars, hc_vars, hs_vars, drv_vars>>

\* the packets of `sent` whose send_cmio reached the yield (a send_cmio that
\* returns Err has not yielded)
Delivered(sent) ==
    LET s == SelectSeq(sent, LAMBDA x : x.ok)
    IN  [i \in 1..Len(s) |-> s[i].packet]

\* machine.run() returns in run_machine_until_yield: the guest has yielded
\* with `request`
MachineYields(request) ==
    /\ cmio_request' = request
    /\ pc' = "receive"
    /\ yielded' = TRUE
    /\ n_receive' = 0
    /\ n_response' = 0
    /\ response' = NoResponse
    /\ UNCHANGED <<listeners, connections, connection_requests, cmio_write_queue,
                   cmio_read_queue, packet, dispatched, guest_rw, requests_enqueued>>

\* the RX mapping after the runner's response: a packet is written over its
\* first bytes; after an empty response the mapping holds what it held or
\* has been cleared
RxAfter(resp, rx) ==
    IF resp.kind = "packet"
    THEN {Packet_to_bytes(resp.bytes)
            \o SubSeq(rx, Len(Packet_to_bytes(resp.bytes)) + 1, Len(rx))}
    ELSE {rx, Zeros(Len(rx))}

\* the local streams deliver data only while the runner buffers few payloads
CompReadOutcomes ==
    IF Buffered(connections) < MaxBuffered /\ Len(cmio_write_queue) < MaxLiveQueue
    THEN ReadOutcomes
    ELSE {r \in ReadOutcomes : r.kind # "data"}

\* run_agent: manager.poll_vsock_connections(), up to its first send_cmio
CompPollVsock ==
    /\ pc = "run"
    /\ Agent.wait = "none" /\ Agent.outbox = <<>>
    /\ ga_pc = "poll_vsock"
    /\ poll_vsock_connections(CompReadOutcomes)
    /\ ga_pc' = "poll_cmio"
    /\ comp_agent' = Some([Agent EXCEPT !.outbox = Delivered(ga_last'[1].sent)])
    /\ UNCHANGED <<comp_last, runner_vars, comp_others>>

\* send_cmio(&packet.to_bytes(), CMIO_QUEUE_ID): the bytes are copied to TX
\* and the machine yields
CompSend ==
    /\ pc = "run"
    /\ Agent.wait = "none" /\ Agent.outbox # <<>>
    /\ MachineYields([variant |-> "GIO", data |-> Packet_to_bytes(Head(Agent.outbox))])
    /\ comp_agent' = Some([Agent EXCEPT !.wait = "send"])
    /\ UNCHANGED <<ga_vars, comp_last, comp_others>>

\* the send_cmio of a packet returns: its callers drop the bytes returned
CompSendReturns ==
    /\ pc = "run"
    /\ Agent.wait = "send"
    /\ \E rx \in RxAfter(response, Agent.rx) :
         comp_agent' = Some([wait |-> "none", outbox |-> Tail(Agent.outbox), rx |-> rx])
    /\ comp_last' = Some([send |-> "packet", reply |-> response, dispatched |-> None])
    /\ UNCHANGED <<ga_vars, runner_vars, comp_others>>

\* poll_cmio: send_cmio(&[], CMIO_QUEUE_ID) yields with an empty TX
CompPoll ==
    /\ pc = "run"
    /\ Agent.wait = "none" /\ Agent.outbox = <<>>
    /\ ga_pc = "poll_cmio"
    /\ MachineYields([variant |-> "GIO", data |-> <<>>])
    /\ comp_agent' = Some([Agent EXCEPT !.wait = "poll"])
    /\ UNCHANGED <<ga_vars, comp_last, comp_others>>

\* poll_cmio: send_cmio(&[], CMIO_QUEUE_ID) returns Err without a yield
CompPollFails ==
    /\ pc = "run"
    /\ Agent.wait = "none" /\ Agent.outbox = <<>>
    /\ ga_pc = "poll_cmio"
    /\ ga_last' = GaHandled("poll_cmio", None, <<>>, "none", <<>>)
    /\ ga_pc' = "poll_vsock"
    /\ UNCHANGED <<ga_connections, ga_streams, comp_vars, runner_vars, comp_others>>

\* (mutant) poll_cmio drops the bytes send_cmio returned, as the other
\* callers of send_cmio do
CompPollReturnsDiscards ==
    /\ pc = "run"
    /\ Agent.wait = "poll"
    /\ \E rx \in RxAfter(response, Agent.rx) :
         /\ poll_cmio(<<>>)
         /\ comp_agent' = Some([wait |-> "none", outbox |-> Delivered(ga_last'[1].sent),
                                rx |-> rx])
         /\ comp_last' = Some([send |-> "poll", reply |-> response,
                               dispatched |-> ga_last'[1].decoded])
    /\ ga_pc' = "poll_vsock"
    /\ UNCHANGED <<runner_vars, comp_others>>

\* poll_cmio: send_cmio(&[], CMIO_QUEUE_ID) returns the RX mapping, which is
\* decoded and handed to handle_cmio_packet
CompPollReturns ==
    /\ pc = "run"
    /\ Agent.wait = "poll"
    /\ \E rx \in RxAfter(response, Agent.rx) :
         /\ poll_cmio(rx)
         /\ comp_agent' = Some([wait |-> "none", outbox |-> Delivered(ga_last'[1].sent),
                                rx |-> rx])
         /\ comp_last' = Some([send |-> "poll", reply |-> response,
                               dispatched |-> ga_last'[1].decoded])
    /\ ga_pc' = "poll_vsock"
    /\ UNCHANGED <<runner_vars, comp_others>>

CompNext ==
    \/ listen
    \/ connect
    \/ ReceivePacket
    \/ Respond
    \/ Drain
    \/ WalkConnections
    \/ WalkConnectionRequests
    \/ MachineFails
    \/ CompPollVsock
    \/ CompSend
    \/ CompSendReturns
    \/ CompPoll
    \/ CompPollFails
    \/ CompPollReturns

CompSpec == CompInit /\ [][CompNext]_vars

\* C37: no host packet is lost between the runner and the guest agent.  The
\* runner never answers with a packet from its write queue while the agent
\* waits in the send_cmio of a packet; a send_cmio of a packet that has
\* returned was answered with an empty response and dispatched nothing; and
\* when the agent's empty poll was answered with a packet popped from the
\* write queue, handle_cmio_packet was called with exactly that packet.
C37_NoHostPacketLost ==
    /\ ~(response.kind = "packet" /\ Agent.wait = "send")
    /\ comp_last # None =>
         /\ comp_last[1].send = "packet" =>
              /\ comp_last[1].reply = EmptyResponse
              /\ comp_last[1].dispatched = None
         /\ comp_last[1].reply.kind = "packet" =>
              /\ comp_last[1].send = "poll"
              /\ comp_last[1].dispatched = Some(comp_last[1].reply.bytes)

\* the agent holds a connection, has handed at least its RESPONSE to
\* send_cmio, and its latest empty poll was answered with a REQUEST popped
\* from the write queue, which handle_cmio_packet has been given
C37_Witness ==
    /\ comp_last # None
    /\ comp_last[1].send = "poll"
    /\ comp_last[1].reply.kind = "packet"
    /\ comp_last[1].reply.bytes.hdr.op = VSOCK_OP_REQUEST
    /\ comp_last[1].dispatched = Some(comp_last[1].reply.bytes)
    /\ ga_last[1].handler = "poll_cmio"
    /\ ga_last[1].decoded = comp_last[1].dispatched
    /\ ga_last[1].before # {}
====
